---- MODULE Spec2Model ----
(***************************************************************************)
(* A model of the deferred reference-counting (DRC) heap of                *)
(* crates/wasmtime/src/runtime/vm/gc/enabled/drc.rs: the reference counts  *)
(* kept in object headers inside the linear memory, the deallocation       *)
(* cascade, the activations table (bump chunk, over-approximated and       *)
(* precise root sets) and the two-phase collection.                        *)
(*                                                                         *)
(* The linear memory is modelled word by word (one value per 4-byte        *)
(* offset); a 64-bit field is kept in the word at its offset.  Option<T>   *)
(* is modelled as a sequence of length at most one.                        *)
(***************************************************************************)
EXTENDS Integers, Sequences, FiniteSets, TLC

\* ------------------------------------------------------------------ bounds

\* How many 32-byte objects the attached linear memory has room for.
HeapObjects == 2

\* How many owned references (globals, tables, locals of host code) the host
\* side of the embedding can hold at once.
HostSlots == 2

\* The largest array length the host allocates.
MaxArrayLen == 1

\* The largest reference count the host drives an object to by cloning.
MaxRefCount == 2

\* The deepest nesting of no-GC scopes the host opens.
MaxNoGcDepth == 1

\* How many times the embedding attaches the heap to a memory.
MaxLives == 2

\* The longest roots list the stack walker hands to a collection.
MaxRoots == 2

\* The most references the host asks room for before entering the mutator.
MaxGcRefs == 2

\* The bump chunk's capacities, in slots.  The program's values are
\* 4 KiB / 4 and 128 MiB / 4; the model scales them down, keeping
\* 0 < INITIAL_CAPACITY < MAX_CAPACITY < 2 * INITIAL_CAPACITY so that growth
\* from the empty chunk, doubling and clamping all happen.
INITIAL_CAPACITY == 1
MAX_CAPACITY == 2

\* ----------------------------------------------------------------- options

None == <<>>
Some(x) == <<x>>
IsSome(o) == o /= <<>>
Unwrap(o) == o[1]

Min(S) == CHOOSE x \in S : \A y \in S : x <= y

\* ------------------------------------------------------- GC references

\* A raw reference is a 32-bit word: 0 is no reference, an odd word is an
\* inline small integer (i31), any other word is the heap index of an object.
is_i31(raw) == raw % 2 = 1

from_raw_u32(raw) == IF raw = 0 THEN None ELSE Some(raw)

as_raw_u32(gc_ref) == gc_ref
\* The raw word of an Option<VMGcRef>.
RawOf(o) == IF IsSome(o) THEN as_raw_u32(Unwrap(o)) ELSE 0

from_heap_index(index) == IF index /= 0 /\ index % 2 = 0 THEN Some(index) ELSE None

\* The one inline integer the model's host and mutator use.
I31Ref == 1

\* ------------------------------------------------------- object layout

SizeOfU32 == 4

\* VMDrcHeader { header: VMGcHeader (u64), ref_count: u64, object_size: u32 },
\* repr(C): the offsets of its fields, its size and its alignment.
HEADER_KIND_OFFSET == 0
HEADER_REF_COUNT_OFFSET == 8
HEADER_OBJECT_SIZE_OFFSET == 16
HEADER_SIZE == 24
HEADER_ALIGN == 8

\* VMDrcArrayHeader { header, length: u32 } and VMDrcExternRef { header,
\* host_data }.
ARRAY_LENGTH_OFFSET == HEADER_SIZE
EXTERNREF_HOST_DATA_OFFSET == HEADER_SIZE
GC_REF_ARRAY_ELEMS_OFFSET == ARRAY_LENGTH_OFFSET + SizeOfU32

\* Layout::new::<VMDrcExternRef>(): 28 bytes of fields padded to the alignment.
ExternRefLayout == [size |-> 32, align |-> HEADER_ALIGN]

\* VMGcKind and the packing of VMGcHeader: the kind in the high bits, the
\* type index in the low bits, no type index for an externref.
KindExternRef == 1
KindStructRef == 2
KindArrayRef == 3
KindShift == 16
ReservedTypeIndex == 15

VMGcHeader_from_kind_and_index(kind, ty) == kind * KindShift + ty
VMGcHeader_externref == KindExternRef * KindShift + ReservedTypeIndex
header_kind(word) == word \div KindShift
header_ty(word) ==
    IF header_kind(word) = KindExternRef THEN None ELSE Some(word % KindShift)

\* ------------------------------------------------------- type registry

\* The layouts the engine's type registry supplies: type 1 is a struct with a
\* reference field and a plain field, type 2 an array of references, type 3
\* an array of plain 32-bit values.
TypeRegistry ==
    <<[kind |-> "Struct", size |-> 32, align |-> 8, elems_are_gc_refs |-> FALSE,
       fields |-> <<[offset |-> 24, is_gc_ref |-> TRUE],
                    [offset |-> 28, is_gc_ref |-> FALSE]>>],
      [kind |-> "Array", size |-> 28, align |-> 8, elems_are_gc_refs |-> TRUE,
       fields |-> <<>>],
      [kind |-> "Array", size |-> 28, align |-> 8, elems_are_gc_refs |-> FALSE,
       fields |-> <<>>]>>

Types == DOMAIN TypeRegistry
StructTypes == {ty \in Types : TypeRegistry[ty].kind = "Struct"}
ArrayTypes == {ty \in Types : TypeRegistry[ty].kind = "Array"}

\* GcStructLayout::layout and GcArrayLayout::layout(length).
StructLayout(ty) == [size |-> TypeRegistry[ty].size, align |-> TypeRegistry[ty].align]
ArrayLayout(ty, length) ==
    [size |-> TypeRegistry[ty].size + length * SizeOfU32, align |-> TypeRegistry[ty].align]

\* ------------------------------------------------------------ free list

FreeListAlign == 8

RoundUp(n, a) == ((n + a - 1) \div a) * a

\* The attached memory: index 0 is never handed out (it is the null
\* reference), so the first aligned block is reserved.
MemoryLength == FreeListAlign + HeapObjects * 32

Cells(from, to) == {a \in from..(to - 1) : a % FreeListAlign = 0 /\ a + FreeListAlign <= to}

FreeList_layout(size) == [size |-> RoundUp(size, FreeListAlign), align |-> FreeListAlign]

FreeList_new(capacity) ==
    [capacity |-> capacity, free |-> Cells(FreeListAlign, capacity)]

BlockCells(index, size) == {index + k * FreeListAlign : k \in 0..((size \div FreeListAlign) - 1)}

\* First fit: the lowest block that is wholly free and aligned.
FreeList_alloc(fl, layout) ==
    LET size == RoundUp(layout.size, FreeListAlign)
        fits == {a \in fl.free : a % layout.align = 0 /\ BlockCells(a, size) \subseteq fl.free}
    IN  IF fits = {}
        THEN [free_list |-> fl, index |-> None]
        ELSE [free_list |-> [fl EXCEPT !.free = @ \ BlockCells(Min(fits), size)],
              index |-> Some(Min(fits))]

FreeList_dealloc(fl, index, layout) ==
    [fl EXCEPT !.free = @ \cup BlockCells(index, layout.size)]

FreeList_add_capacity(fl, delta) ==
    [capacity |-> fl.capacity + delta,
     free |-> fl.free \cup Cells(fl.capacity, fl.capacity + delta)]

\* ------------------------------------------------------------------ state

VARIABLES
    debug_assertions,   \* the build: cfg!(debug_assertions)
    trace_infos,        \* DrcHeap::trace_infos: type index -> TraceInfo
    no_gc_count,        \* DrcHeap::no_gc_count
    activations_table,  \* DrcHeap::activations_table
    memory,             \* DrcHeap::memory: Option<Memory>, the memory's words
    vmmemory,           \* DrcHeap::vmmemory: Option<VMMemoryDefinition>
    free_list,          \* DrcHeap::free_list: Option<FreeList>
    dec_ref_stack,      \* DrcHeap::dec_ref_stack: Option<Vec<VMGcRef>>
    host_data_table,    \* the ExternRefHostDataTable passed to write_gc_ref and gc
    collection,         \* the DrcCollection borrowing the heap, if any
    host_slots,         \* the references the host owns, one Option<VMGcRef> each
    uninit,             \* the object handed out by alloc_uninit_* and not yet initialized
    lives,              \* how many times the heap has been attached
    open_scopes,        \* enter_no_gc_scope calls minus exit_no_gc_scope calls since
                        \* construction or the last detach
    panicked,           \* the message of the panic that ended the run, "" if none
    last                \* the last operation the host called, its arguments and result

heap_vars == <<trace_infos, no_gc_count, activations_table, memory, vmmemory,
               free_list, dec_ref_stack>>
env_vars == <<host_data_table, collection, host_slots, uninit, lives, open_scopes>>
vars == <<debug_assertions, heap_vars, env_vars, panicked, last>>

\* The execution context an operation runs in: the fields of the DrcHeap, the
\* host-data table it is handed, whether it has panicked, and the sequence of
\* reference-count events it has performed so far.
Cur ==
    [trace_infos |-> trace_infos, no_gc_count |-> no_gc_count,
     activations_table |-> activations_table, memory |-> memory,
     vmmemory |-> vmmemory, free_list |-> free_list,
     dec_ref_stack |-> dec_ref_stack, host_data_table |-> host_data_table,
     panicked |-> panicked, log |-> <<>>]

Panic(x, msg) == IF x.panicked /= "" THEN x ELSE [x EXCEPT !.panicked = msg]
Ok(x) == x.panicked = ""
Event(x, kind, a, b) == [x EXCEPT !.log = Append(@, <<kind, a, b>>)]

\* ----------------------------------------------------------- heap access

Addrs(len) == {a \in 0..(len - 1) : a % SizeOfU32 = 0}
ZeroMemory(len) == [data |-> [a \in Addrs(len) |-> 0], len |-> len]

\* GcHeap::index / index_mut on a typed reference: a field of the object at
\* heap index gc_ref.
read_u32(x, addr) == Unwrap(x.memory).data[addr]
write_u32(x, addr, v) == [x EXCEPT !.memory[1].data[addr] = v]
InBounds(x, gc_ref) ==
    /\ IsSome(x.memory) /\ IsSome(x.vmmemory)
    /\ gc_ref + HEADER_SIZE <= Unwrap(x.vmmemory).current_length

ref_count(x, gc_ref) == read_u32(x, gc_ref + HEADER_REF_COUNT_OFFSET)
object_size(x, gc_ref) == read_u32(x, gc_ref + HEADER_OBJECT_SIZE_OFFSET)
header(x, gc_ref) == read_u32(x, gc_ref + HEADER_KIND_OFFSET)
array_len(x, gc_ref) == read_u32(x, gc_ref + ARRAY_LENGTH_OFFSET)

\* ref_count is a u64; the model's integers are narrower, so the wrap of a
\* release build's unchecked decrement is taken modulo this width.
RefCountBits == 16
RefCountModulus == 2 ^ RefCountBits

\* DrcHeap::dealloc
dealloc(x, gc_ref) ==
    IF ~Ok(x) THEN x
    ELSE IF ~InBounds(x, gc_ref) \/ ~IsSome(x.free_list) THEN Panic(x, "detached")
    ELSE LET layout == FreeList_layout(object_size(x, gc_ref))
         IN  Event([x EXCEPT !.free_list =
                        Some(FreeList_dealloc(Unwrap(x.free_list), gc_ref, layout))],
                   "dealloc", gc_ref, ref_count(x, gc_ref))

\* An increment that masks the tag bit off instead of testing it.
inc_ref_untagged(x, gc_ref) ==
    LET index == gc_ref - (gc_ref % 2)
    IN  IF ~Ok(x) THEN x
        ELSE IF ~InBounds(x, index) THEN Panic(x, "detached")
        ELSE LET n == (ref_count(x, index) + 1) % RefCountModulus
             IN  Event(write_u32(x, index + HEADER_REF_COUNT_OFFSET, n), "inc", index, n)

\* DrcHeap::inc_ref
inc_ref(x, gc_ref) ==
    IF ~Ok(x) \/ is_i31(gc_ref) THEN x
    ELSE IF ~InBounds(x, gc_ref) THEN Panic(x, "detached")
    ELSE IF debug_assertions /\ ref_count(x, gc_ref) = 0
         THEN Panic(x, "should have nonzero ref count")
    ELSE LET n == (ref_count(x, gc_ref) + 1) % RefCountModulus
         IN  Event(write_u32(x, gc_ref + HEADER_REF_COUNT_OFFSET, n), "inc", gc_ref, n)

\* A decrement that reports zero one reference early.
dec_ref_zero_at_one(x, gc_ref) ==
    IF ~Ok(x) \/ is_i31(gc_ref) THEN [x |-> x, zero |-> FALSE]
    ELSE IF ~InBounds(x, gc_ref) THEN [x |-> Panic(x, "detached"), zero |-> FALSE]
    ELSE LET n == (ref_count(x, gc_ref) - 1) % RefCountModulus
         IN  [x |-> Event(write_u32(x, gc_ref + HEADER_REF_COUNT_OFFSET, n),
                          "dec", gc_ref, n),
              zero |-> n <= 1]

\* DrcHeap::dec_ref: the context after the decrement and whether the count
\* reached zero.
dec_ref(x, gc_ref) ==
    IF ~Ok(x) \/ is_i31(gc_ref) THEN [x |-> x, zero |-> FALSE]
    ELSE IF ~InBounds(x, gc_ref) THEN [x |-> Panic(x, "detached"), zero |-> FALSE]
    ELSE IF debug_assertions /\ ref_count(x, gc_ref) = 0
         THEN [x |-> Panic(x, "should have nonzero ref count"), zero |-> FALSE]
    ELSE LET n == (ref_count(x, gc_ref) - 1) % RefCountModulus
         IN  [x |-> Event(write_u32(x, gc_ref + HEADER_REF_COUNT_OFFSET, n),
                          "dec", gc_ref, n),
              zero |-> n = 0]

\* The non-null words among raws, pushed in order.
PushRefs(stack, raws) == stack \o SelectSeq(raws, LAMBDA raw : IsSome(from_raw_u32(raw)))

\* A trace that finds no outgoing edge.
trace_gc_ref_no_edges(x, gc_ref, stack) == Some(stack)

\* DrcHeap::trace_gc_ref: the stack with the object's outgoing edges pushed,
\* None if the lookup of its trace info fails.
trace_gc_ref(x, gc_ref, stack) ==
    LET ty == header_ty(header(x, gc_ref))
    IN  IF ~IsSome(ty) THEN Some(stack)
        ELSE IF Unwrap(ty) \notin DOMAIN x.trace_infos THEN None
        ELSE LET info == x.trace_infos[Unwrap(ty)]
             IN  IF info.kind = "Struct"
                 THEN Some(PushRefs(stack,
                        [i \in 1..Len(info.gc_ref_offsets) |->
                            read_u32(x, gc_ref + info.gc_ref_offsets[i])]))
                 ELSE IF ~info.gc_ref_elems THEN Some(stack)
                 ELSE Some(PushRefs(stack,
                        [i \in 1..array_len(x, gc_ref) |->
                            read_u32(x, gc_ref + GC_REF_ARRAY_ELEMS_OFFSET
                                        + (i - 1) * SizeOfU32)]))

\* ExternRefHostDataTable::dealloc
host_data_dealloc(x, id) ==
    IF id \notin x.host_data_table THEN Panic(x, "host data id is not allocated")
    ELSE Event([x EXCEPT !.host_data_table = @ \ {id}], "host_dealloc", id, 0)

\* The while-let loop of dec_ref_and_maybe_dealloc over the worklist.
RECURSIVE DecRefLoop(_, _)

\* A deallocation that forgets the externref's host data.
dealloc_traced_keeping_host_data(x, gc_ref, traced) ==
    IF ~IsSome(traced) THEN Panic(x, "should have inserted trace info")
    ELSE DecRefLoop(dealloc(x, gc_ref), Unwrap(traced))

\* The count of gc_ref reached zero and its edges are on the worklist
\* (traced): an externref gives its host data back, the object is
\* deallocated, and the loop goes on.
dealloc_traced(x, gc_ref, traced) ==
    IF ~IsSome(traced) THEN Panic(x, "should have inserted trace info")
    ELSE DecRefLoop(
           dealloc(IF header_kind(header(x, gc_ref)) = KindExternRef
                   THEN host_data_dealloc(x, read_u32(x, gc_ref + EXTERNREF_HOST_DATA_OFFSET))
                   ELSE x,
                   gc_ref),
           Unwrap(traced))

\* An iteration that also deallocates an object whose last reference comes
\* from an object it refers to itself.
after_dec_ref_trial_deletion(d, gc_ref, rest) ==
    LET edges == IF Ok(d.x) /\ InBounds(d.x, gc_ref)
                 THEN trace_gc_ref(d.x, gc_ref, <<>>) ELSE None
        own == IF IsSome(edges) THEN Unwrap(edges) ELSE <<>>
        cyclic == /\ Len(own) > 0 /\ ref_count(d.x, gc_ref) = 1
                  /\ \E i \in 1..Len(own) :
                        /\ ~is_i31(own[i]) /\ InBounds(d.x, own[i])
                        /\ \A back \in {trace_gc_ref(d.x, own[i], <<>>)} :
                              /\ IsSome(back)
                              /\ \E j \in 1..Len(Unwrap(back)) : Unwrap(back)[j] = gc_ref
    IN  IF ~d.zero /\ ~cyclic THEN DecRefLoop(d.x, rest)
        ELSE dealloc_traced(d.x, gc_ref, trace_gc_ref(d.x, gc_ref, rest))

\* One iteration, once dec_ref has returned d for the popped gc_ref.
after_dec_ref(d, gc_ref, rest) ==
    IF ~d.zero THEN DecRefLoop(d.x, rest)
    ELSE dealloc_traced(d.x, gc_ref, trace_gc_ref(d.x, gc_ref, rest))

DecRefLoop(x, stack) ==
    IF ~Ok(x) \/ stack = <<>> THEN x
    ELSE after_dec_ref(dec_ref(x, stack[Len(stack)]), stack[Len(stack)],
                       SubSeq(stack, 1, Len(stack) - 1))

\* A cascade that ends without giving the worklist back.
dec_ref_stack_not_put_back(x) == x

\* The worklist goes back into the heap when the loop is done.
put_back_dec_ref_stack(x) == IF Ok(x) THEN [x EXCEPT !.dec_ref_stack = Some(<<>>)] ELSE x

\* DrcHeap::dec_ref_and_maybe_dealloc
dec_ref_and_maybe_dealloc(x, gc_ref) ==
    IF ~Ok(x) THEN x
    ELSE IF ~IsSome(x.dec_ref_stack) THEN Panic(x, "dec_ref_stack taken")
    ELSE IF debug_assertions /\ Unwrap(x.dec_ref_stack) /= <<>>
         THEN Panic(x, "stack.is_empty()")
    ELSE put_back_dec_ref_stack(DecRefLoop([x EXCEPT !.dec_ref_stack = None],
                                           Append(Unwrap(x.dec_ref_stack), gc_ref)))

\* ----------------------------------------------------- activations table

\* VMGcRefTableAlloc: next and end are byte addresses, kept relative to the
\* address of the chunk's first slot; chunk is the sequence of its slots.
VMGcRefTableAlloc_default == [next |-> 0, end |-> 0, chunk |-> <<>>]

VMGcRefActivationsTable_new ==
    [alloc |-> VMGcRefTableAlloc_default,
     over_approximated_stack_roots |-> {},
     precise_stack_roots |-> {}]

\* VMGcRefTableAlloc::capacity
capacity(alloc) == Len(alloc.chunk)

\* VMGcRefTableAlloc::len
SaturatingSub(a, b) == IF a >= b THEN a - b ELSE 0
len(alloc) ==
    LET bytes_unused == alloc.end - alloc.next
        slots_unused == bytes_unused \div SizeOfU32
    IN  SaturatingSub(Len(alloc.chunk), slots_unused)

\* A reset that moves next back and leaves end where it was.
alloc_reset_next_only(alloc) == [alloc EXCEPT !.next = 0]

\* VMGcRefTableAlloc::reset
alloc_reset(alloc) ==
    LET cap == Len(alloc.chunk)
    IN  [alloc EXCEPT !.next = 0, !.end = cap * SizeOfU32]

\* VMGcRefTableAlloc::grow_bump_chunk; alloc_ok is whether the global
\* allocator returned a chunk.
IntMin(a, b) == IF a <= b THEN a ELSE b
IntMax(a, b) == IF a >= b THEN a ELSE b
\* A growth that doubles without the upper limit.
grow_bump_chunk_unclamped(alloc, alloc_ok) ==
    IF alloc_ok
    THEN [alloc EXCEPT !.chunk = [i \in 1..IntMax(capacity(alloc) * 2, INITIAL_CAPACITY) |-> 0]]
    ELSE alloc

grow_bump_chunk(alloc, alloc_ok) ==
    LET new_cap == IntMax(IntMin(capacity(alloc) * 2, MAX_CAPACITY), INITIAL_CAPACITY)
    IN  IF alloc_ok
        THEN [alloc EXCEPT !.chunk = [i \in 1..new_cap |-> 0]]
        ELSE alloc

\* VMGcRefActivationsTable::reset
table_reset(table) ==
    [alloc |-> alloc_reset(table.alloc),
     over_approximated_stack_roots |-> {},
     precise_stack_roots |-> {}]

\* VMGcRefActivationsTable::bump_capacity_remaining
bump_capacity_remaining(table) == table.alloc.end - table.alloc.next

\* The index in chunk of the slot a pointer addresses.
SlotAt(ptr) == ptr \div SizeOfU32 + 1

\* VMGcRefActivationsTable::try_insert: the context, whether the reference
\* went into the bump chunk, and the reference Err gives back.
try_insert(x, gc_ref) ==
    LET a == x.activations_table.alloc
    IN  IF a.next = a.end THEN [x |-> x, ok |-> FALSE, gc_ref |-> gc_ref]
        ELSE IF debug_assertions /\ a.chunk[SlotAt(a.next)] /= 0
             THEN [x |-> Panic(x, "slots >= the next bump finger are always None"),
                   ok |-> FALSE, gc_ref |-> gc_ref]
        ELSE [x |-> [x EXCEPT !.activations_table.alloc.chunk[SlotAt(a.next)] =
                                   as_raw_u32(gc_ref),
                              !.activations_table.alloc.next = a.next + SizeOfU32],
              ok |-> TRUE, gc_ref |-> 0]

\* VMGcRefActivationsTable::insert_slow_without_gc
insert_slow_without_gc(x, gc_ref) ==
    [x EXCEPT !.activations_table.over_approximated_stack_roots = @ \cup {gc_ref}]

\* VMGcRefActivationsTable::insert_without_gc
insert_without_gc(x, gc_ref) ==
    LET t == try_insert(x, gc_ref)
    IN  IF ~Ok(t.x) \/ t.ok THEN t.x ELSE insert_slow_without_gc(t.x, t.gc_ref)

\* VMGcRefActivationsTable::elements: the references the visitor is given.
elements(table) ==
    table.over_approximated_stack_roots
    \cup ({table.alloc.chunk[i] : i \in 1..IntMin(len(table.alloc), Len(table.alloc.chunk))}
          \ {0})

\* ------------------------------------------------------------- trace info

\* DrcHeap::insert_new_trace_info: the TraceInfo derived from a layout.
TraceInfoOf(gc_layout) ==
    IF gc_layout.kind = "Array"
    THEN [kind |-> "Array", gc_ref_elems |-> gc_layout.elems_are_gc_refs,
          gc_ref_offsets |-> <<>>]
    ELSE LET refs == SelectSeq(gc_layout.fields, LAMBDA f : f.is_gc_ref)
         IN  [kind |-> "Struct", gc_ref_elems |-> FALSE,
              gc_ref_offsets |-> [i \in 1..Len(refs) |-> refs[i].offset]]

\* A cache that keeps only the entry it inserted last.
insert_new_trace_info_alone(x, ty) ==
    [x EXCEPT !.trace_infos = [t \in {ty} |-> TraceInfoOf(TypeRegistry[ty])]]

insert_new_trace_info(x, ty) ==
    [x EXCEPT !.trace_infos =
        [t \in DOMAIN x.trace_infos \cup {ty} |->
            IF t = ty THEN TraceInfoOf(TypeRegistry[ty]) ELSE x.trace_infos[t]]]

\* DrcHeap::ensure_trace_info
ensure_trace_info(x, ty) ==
    IF ty \in DOMAIN x.trace_infos THEN x ELSE insert_new_trace_info(x, ty)

\* ------------------------------------------------------------- allocation

\* The header alloc_raw writes into the block the free list returned.
\* A header written with the count left at zero.
write_header_uncounted(x, gc_ref, hdr, layout) ==
    IF ~InBounds(x, gc_ref)
    THEN [x |-> Panic(x, "detached"), ok |-> FALSE, val |-> 0]
    ELSE [x |-> write_u32(write_u32(write_u32(x, gc_ref + HEADER_KIND_OFFSET, hdr),
                                    gc_ref + HEADER_REF_COUNT_OFFSET, 0),
                          gc_ref + HEADER_OBJECT_SIZE_OFFSET, layout.size),
          ok |-> TRUE, val |-> gc_ref]

write_header(x, gc_ref, hdr, layout) ==
    IF ~InBounds(x, gc_ref)
    THEN [x |-> Panic(x, "detached"), ok |-> FALSE, val |-> 0]
    ELSE [x |-> write_u32(write_u32(write_u32(x, gc_ref + HEADER_KIND_OFFSET, hdr),
                                    gc_ref + HEADER_REF_COUNT_OFFSET, 1),
                          gc_ref + HEADER_OBJECT_SIZE_OFFSET, layout.size),
          ok |-> TRUE, val |-> gc_ref]

\* An allocation that unwraps what the free list answered.
after_free_list_alloc_unwrap(x, got, hdr, layout) ==
    IF ~IsSome(got.index)
    THEN [x |-> Panic(x, "unwrap on None"),
          ok |-> FALSE, val |-> 0]
    ELSE write_header([x EXCEPT !.free_list = Some(got.free_list)],
                      Unwrap(from_heap_index(Unwrap(got.index))), hdr, layout)

\* alloc_raw once the free list has answered: Err(layout.size) when it has
\* no block, else the new object.
after_free_list_alloc(x, got, hdr, layout) ==
    IF ~IsSome(got.index)
    THEN [x |-> x, ok |-> FALSE, val |-> layout.size]
    ELSE write_header([x EXCEPT !.free_list = Some(got.free_list)],
                      Unwrap(from_heap_index(Unwrap(got.index))), hdr, layout)

\* alloc_raw after ensure_trace_info: self.free_list.as_mut().unwrap().
alloc_from_free_list(x, hdr, layout) ==
    IF ~IsSome(x.free_list)
    THEN [x |-> Panic(x, "detached"), ok |-> FALSE, val |-> 0]
    ELSE after_free_list_alloc(x, FreeList_alloc(Unwrap(x.free_list), layout), hdr, layout)

\* DrcHeap::alloc_raw: the context and Ok(gc_ref) / Err(bytes needed).
alloc_raw(x, hdr, layout) ==
    alloc_from_free_list(IF IsSome(header_ty(hdr))
                         THEN ensure_trace_info(x, Unwrap(header_ty(hdr)))
                         ELSE x,
                         hdr, layout)

\* A word the wrappers of alloc_raw write into the new object.
write_field_of_new(r, offset, v) ==
    IF ~(Ok(r.x) /\ r.ok) THEN r
    ELSE [r EXCEPT !.x = write_u32(r.x, r.val + offset, v)]

\* DrcHeap::alloc_externref
alloc_externref(x, host_data) ==
    write_field_of_new(alloc_raw(x, VMGcHeader_externref, ExternRefLayout),
                       EXTERNREF_HOST_DATA_OFFSET, host_data)

\* DrcHeap::alloc_uninit_struct
alloc_uninit_struct(x, ty, layout) ==
    alloc_raw(x, VMGcHeader_from_kind_and_index(KindStructRef, ty), layout)

\* DrcHeap::alloc_uninit_array
alloc_uninit_array(x, ty, length, layout) ==
    write_field_of_new(alloc_raw(x, VMGcHeader_from_kind_and_index(KindArrayRef, ty), layout),
                       ARRAY_LENGTH_OFFSET, length)

\* -------------------------------------------------------------- barriers

\* A clone that hands out the copy and forgets the count.
clone_gc_ref_uncounted(x, gc_ref) == x

\* DrcHeap::clone_gc_ref
clone_gc_ref(x, gc_ref) == inc_ref(x, gc_ref)

\* The three steps of write_gc_ref.  The actual write: *destination = source.
store(x, destination, source) ==
    IF Ok(x)
    THEN [x |-> Event(x, "store", RawOf(source), 0), destination |-> source]
    ELSE [x |-> x, destination |-> destination]

\* DrcHeap::write_gc_ref: the increment of the source, then the decrement of
\* the value being overwritten, then the write.  destination and source are
\* Option<VMGcRef>; the result is the context and what *destination holds.
inc_source(x, source) == IF IsSome(source) THEN inc_ref(x, Unwrap(source)) ELSE x
dec_destination(x, destination) ==
    IF IsSome(destination) THEN dec_ref_and_maybe_dealloc(x, Unwrap(destination)) ELSE x

\* The decrement of the old value before the increment of the new one.
write_gc_ref_dec_first(x, destination, source) ==
    store(inc_source(dec_destination(x, destination), source), destination, source)

write_gc_ref(x, destination, source) ==
    store(dec_destination(inc_source(x, source), destination), destination, source)

\* DrcHeap::expose_gc_ref_to_wasm
expose_gc_ref_to_wasm(x, gc_ref) == insert_without_gc(x, gc_ref)

\* DrcHeap::need_gc_before_entering_wasm
need_gc_before_entering_wasm(x, num_gc_refs) ==
    num_gc_refs > bump_capacity_remaining(x.activations_table)

\* ------------------------------------------------------------- collection

\* A loop over the roots that counts a reference each time it is reported.
RECURSIVE TraceRoots_counting_each(_, _, _)
TraceRoots_counting_each(x, roots, activations_table_set) ==
    IF ~Ok(x) \/ roots = <<>> THEN x
    ELSE LET root == Head(roots)
             gc_ref == root.gc_ref
         IN  IF ~root.on_wasm_stack \/ is_i31(gc_ref)
             THEN TraceRoots_counting_each(x, Tail(roots), activations_table_set)
             ELSE TraceRoots_counting_each(
                     inc_ref([x EXCEPT !.activations_table.precise_stack_roots =
                                           @ \cup {gc_ref}], gc_ref),
                     Tail(roots), activations_table_set)

\* The body of the for loop of DrcHeap::trace over the remaining roots;
\* activations_table_set is the debug-only set of the table's elements.
RECURSIVE TraceRoots(_, _, _)
TraceRoots(x, roots, activations_table_set) ==
    IF ~Ok(x) \/ roots = <<>> THEN x
    ELSE LET root == Head(roots)
             gc_ref == root.gc_ref
         IN  IF ~root.on_wasm_stack
             THEN TraceRoots(x, Tail(roots), activations_table_set)
             ELSE IF debug_assertions
                     /\ ~(is_i31(gc_ref) \/ gc_ref \in activations_table_set)
             THEN Panic(x, "every on-stack gc_ref should have an entry in the table")
             ELSE IF is_i31(gc_ref)
             THEN TraceRoots(x, Tail(roots), activations_table_set)
             ELSE IF debug_assertions /\ ~InBounds(x, gc_ref)
             THEN Panic(x, "detached")
             ELSE IF debug_assertions /\ ref_count(x, gc_ref) = 0
             THEN Panic(x, "should have nonzero ref count")
             ELSE LET is_new == gc_ref \notin x.activations_table.precise_stack_roots
                      x1 == [x EXCEPT !.activations_table.precise_stack_roots =
                                          @ \cup {gc_ref}]
                  IN  TraceRoots(IF is_new THEN inc_ref(x1, gc_ref) ELSE x1,
                                 Tail(roots), activations_table_set)

\* A trace that takes every reference for an element of the table.
trace_unasserted(x, roots) == TraceRoots(x, roots, Addrs(MemoryLength))

\* DrcHeap::trace
trace(x, roots) ==
    IF debug_assertions /\ x.activations_table.precise_stack_roots /= {}
    THEN Panic(x, "precise_stack_roots.is_empty()")
    ELSE TraceRoots(x, roots, elements(x.activations_table))

\* The for loop of sweep_bump_chunk over slots i..n of the chunk taken out of
\* the table: the context and the chunk afterwards.
RECURSIVE SweepSlots(_, _, _, _)
SweepSlots(x, chunk, i, n) ==
    IF ~Ok(x) \/ i > n THEN [x |-> x, chunk |-> chunk]
    ELSE LET raw == chunk[i]
             taken == [chunk EXCEPT ![i] = 0]
         IN  IF ~IsSome(from_raw_u32(raw))
             THEN [x |-> Panic(x, "non-null"), chunk |-> taken]
             ELSE SweepSlots(dec_ref_and_maybe_dealloc(x, Unwrap(from_raw_u32(raw))),
                             taken, i + 1, n)

\* What sweep_bump_chunk does once the closure given to with_table_alloc has
\* run over the chunk taken out of the table: the table gets its alloc back,
\* the debug assertion, the growth of a chunk that was full, and the reset.
\* A panic inside the closure leaves the table with the default (empty)
\* alloc that mem::take put there.
after_with_table_alloc(alloc, swept, bump_chunk_was_full, alloc_ok) ==
    LET alloc1 == [alloc EXCEPT !.chunk = swept.chunk]
    IN  IF ~Ok(swept.x) THEN swept.x
        ELSE IF debug_assertions /\ \E i \in 1..Len(alloc1.chunk) : alloc1.chunk[i] /= 0
             THEN Panic([swept.x EXCEPT !.activations_table.alloc = alloc1],
                        "after sweeping the bump chunk, all slots should be empty")
        ELSE [swept.x EXCEPT !.activations_table.alloc =
                 alloc_reset(IF bump_chunk_was_full
                             THEN grow_bump_chunk(alloc1, alloc_ok)
                             ELSE alloc1)]

\* DrcHeap::sweep_bump_chunk
sweep_bump_chunk(x, alloc_ok) ==
    LET alloc == x.activations_table.alloc
    IN  after_with_table_alloc(
            alloc,
            SweepSlots([x EXCEPT !.activations_table.alloc = VMGcRefTableAlloc_default],
                       alloc.chunk, 1, IntMin(len(alloc), Len(alloc.chunk))),
            len(alloc) = capacity(alloc),
            alloc_ok)

\* The drain of the taken precise_stack_roots set.
RECURSIVE DrainRoots(_, _)
DrainRoots(x, set) ==
    IF ~Ok(x) \/ set = {} THEN x
    ELSE DrainRoots(dec_ref_and_maybe_dealloc(x, Min(set)), set \ {Min(set)})

\* A sweep that drains the traced set and keeps the over-approximation.
drain_unswapped(x) ==
    IF ~Ok(x) THEN x
    ELSE DrainRoots(Event([x EXCEPT !.activations_table.precise_stack_roots = {}],
                          "swap", 0, 0),
                    x.activations_table.precise_stack_roots)

\* What DrcHeap::sweep does after sweep_bump_chunk: the swap of the two
\* sets (logged as an event), and the drain of what was the
\* over-approximation.
swap_and_drain(x) ==
    IF ~Ok(x) THEN x
    ELSE DrainRoots(Event([x EXCEPT !.activations_table.over_approximated_stack_roots =
                                       x.activations_table.precise_stack_roots,
                                   !.activations_table.precise_stack_roots = {}],
                          "swap", 0, 0),
                    x.activations_table.over_approximated_stack_roots)

\* A sweep that forgets the sets and only sweeps the chunk.
sweep_chunk_only(x, alloc_ok) == sweep_bump_chunk(x, alloc_ok)

\* DrcHeap::sweep
sweep(x, alloc_ok) == swap_and_drain(sweep_bump_chunk(x, alloc_ok))

\* ------------------------------------------------------ attach and detach

\* DrcHeap::is_attached and its debug assertions.
is_attached(x) == IsSome(x.memory)
is_attached_asserts(x) ==
    debug_assertions =>
        /\ IsSome(x.memory) = IsSome(x.free_list)
        /\ IsSome(x.memory) = IsSome(x.vmmemory)

\* An attach that does not look at whether the heap is attached.
attach_unchecked(x, mem) ==
    [x EXCEPT !.free_list = Some(FreeList_new(mem.len)),
              !.vmmemory = Some([current_length |-> mem.len]),
              !.memory = Some(mem)]

\* DrcHeap::attach
attach(x, mem) ==
    IF ~is_attached_asserts(x) THEN Panic(x, "is_attached: assertion failed")
    ELSE IF is_attached(x) THEN Panic(x, "assertion failed: !self.is_attached()")
    ELSE [x EXCEPT !.free_list = Some(FreeList_new(mem.len)),
                   !.vmmemory = Some([current_length |-> mem.len]),
                   !.memory = Some(mem)]

\* DrcHeap::detach
detach(x) ==
    IF ~is_attached_asserts(x) THEN Panic(x, "is_attached: assertion failed")
    ELSE IF ~is_attached(x) THEN Panic(x, "assertion failed: self.is_attached()")
    ELSE LET x1 == [x EXCEPT !.no_gc_count = 0,
                             !.activations_table = table_reset(@),
                             !.free_list = None,
                             !.vmmemory = None]
         IN  IF debug_assertions /\ x1.dec_ref_stack /= Some(<<>>)
             THEN Panic(x1, "dec_ref_stack should be empty")
             ELSE [x1 EXCEPT !.memory = None]

\* DrcHeap::enter_no_gc_scope and exit_no_gc_scope.  no_gc_count is a u64:
\* a debug build panics on overflow, a release build wraps.
NoGcBits == 16
NoGcModulus == 2 ^ NoGcBits

enter_no_gc_scope(x) ==
    IF debug_assertions /\ x.no_gc_count + 1 >= NoGcModulus
    THEN Panic(x, "attempt to add with overflow")
    ELSE [x EXCEPT !.no_gc_count = (@ + 1) % NoGcModulus]

exit_no_gc_scope(x) ==
    IF debug_assertions /\ x.no_gc_count = 0
    THEN Panic(x, "attempt to subtract with overflow")
    ELSE [x EXCEPT !.no_gc_count = (@ - 1) % NoGcModulus]

\* A gc() that does not look at the no-GC scopes.
gc_unchecked(x) == [x |-> x, collection |-> Some([phase |-> "Trace"])]

\* DrcHeap::gc: the context (panicked inside a no-GC scope) and the
\* collection.  The roots iterator the collection carries is modelled as an
\* input of the increment that consumes it.
gc(x) ==
    IF x.no_gc_count /= 0
    THEN [x |-> Panic(x, "Cannot GC inside a no-GC scope!"), collection |-> None]
    ELSE [x |-> x, collection |-> Some([phase |-> "Trace"])]

\* An increment that does the whole collection at once.
collect_increment_at_once(x, c, roots, alloc_ok) ==
    IF c.phase = "Trace"
    THEN [x |-> sweep(trace(x, roots), alloc_ok),
          collection |-> [c EXCEPT !.phase = "Done"],
          progress |-> "Complete"]
    ELSE [x |-> x, collection |-> c, progress |-> "Complete"]

\* DrcCollection::collect_increment: the context, the collection and the
\* GcProgress returned.
collect_increment(x, c, roots, alloc_ok) ==
    IF c.phase = "Trace"
    THEN [x |-> trace(x, roots),
          collection |-> [c EXCEPT !.phase = "Sweep"],
          progress |-> "Continue"]
    ELSE IF c.phase = "Sweep"
    THEN [x |-> sweep(x, alloc_ok),
          collection |-> [c EXCEPT !.phase = "Done"],
          progress |-> "Complete"]
    ELSE [x |-> x, collection |-> c, progress |-> "Complete"]

\* DrcHeap::take_memory: the context and the memory handed to the caller.
take_memory(x) ==
    IF debug_assertions /\ ~is_attached_asserts(x)
    THEN [x |-> Panic(x, "is_attached: assertion failed"), memory |-> None]
    ELSE IF debug_assertions /\ ~is_attached(x)
    THEN [x |-> Panic(x, "assertion failed: self.is_attached()"), memory |-> None]
    ELSE IF ~IsSome(x.memory)
    THEN [x |-> Panic([x EXCEPT !.vmmemory = None], "unwrap of None"), memory |-> None]
    ELSE [x |-> [x EXCEPT !.vmmemory = None, !.memory = None], memory |-> x.memory]

\* A replace_memory that leaves the free list as it is.
replace_memory_same_capacity(x, mem, delta_bytes_grown) ==
    [x EXCEPT !.vmmemory = Some([current_length |-> mem.len]), !.memory = Some(mem)]

\* DrcHeap::replace_memory
replace_memory(x, mem, delta_bytes_grown) ==
    IF debug_assertions /\ IsSome(x.memory) THEN Panic(x, "assertion failed: self.memory.is_none()")
    ELSE LET x1 == [x EXCEPT !.vmmemory = Some([current_length |-> mem.len]),
                             !.memory = Some(mem)]
         IN  IF ~IsSome(x1.free_list) THEN Panic(x1, "unwrap of None")
             ELSE [x1 EXCEPT !.free_list =
                      Some(FreeList_add_capacity(Unwrap(x1.free_list), delta_bytes_grown))]

\* ----------------------------------------------------------- environment

\* A plain 32-bit value the host stores in fields that are not references;
\* it happens to equal a heap index.
PlainValue == FreeListAlign

Slots == 1..HostSlots

\* Where a destination of write_gc_ref is: a field at its address in the
\* memory, a host slot below address 0.
HostSlotPlace(slot) == 0 - slot

\* The references the host owns, and those the mutator may hold on its stack:
\* every reference on the mutator's stack has an entry in the activations
\* table, placed there when it was exposed.
HostHeld == {host_slots[i] : i \in Slots} \ {0}
MutatorHeld == {r \in elements(activations_table) : ~is_i31(r)}
Held == HostHeld \cup MutatorHeld
HeldObjects == {r \in Held : ~is_i31(r)}

\* The offsets of the fields of an object that hold references.
RefSlotOffsets(x, gc_ref) ==
    LET ty == header_ty(header(x, gc_ref))
    IN  IF ~IsSome(ty) \/ Unwrap(ty) \notin DOMAIN x.trace_infos THEN {}
        ELSE LET info == x.trace_infos[Unwrap(ty)]
             IN  IF info.kind = "Struct"
                 THEN {info.gc_ref_offsets[i] : i \in 1..Len(info.gc_ref_offsets)}
                 ELSE IF ~info.gc_ref_elems THEN {}
                 ELSE {GC_REF_ARRAY_ELEMS_OFFSET + (i - 1) * SizeOfU32 :
                          i \in 1..array_len(x, gc_ref)}

\* The words of a freshly allocated object the allocating caller writes when
\* it initializes it: None in every reference field, a plain value elsewhere.
InitWords(x, gc_ref) ==
    LET ty == Unwrap(header_ty(header(x, gc_ref)))
        l == TypeRegistry[ty]
    IN  IF l.kind = "Struct"
        THEN [off \in {l.fields[i].offset : i \in 1..Len(l.fields)} |->
                 IF off \in RefSlotOffsets(x, gc_ref) THEN 0 ELSE PlainValue]
        ELSE [off \in {GC_REF_ARRAY_ELEMS_OFFSET + (i - 1) * SizeOfU32 :
                          i \in 1..array_len(x, gc_ref)} |->
                 IF l.elems_are_gc_refs THEN 0 ELSE PlainValue]

\* The roots a stack walk can report: the references on the mutator's stack
\* (tagged on_wasm_stack), inline integers, and host-side roots.
RootEntries ==
    {[gc_ref |-> r, on_wasm_stack |-> TRUE] : r \in MutatorHeld \cup {I31Ref}}
    \cup {[gc_ref |-> r, on_wasm_stack |-> FALSE] : r \in HostHeld}

\* The walker reports each root once, in address order: on-stack roots by
\* reference, host roots after them.
RootKey(e) == IF e.on_wasm_stack THEN e.gc_ref ELSE MemoryLength + e.gc_ref

RECURSIVE RootList(_)
RootList(S) ==
    IF S = {} THEN <<>>
    ELSE LET e == CHOOSE e \in S : \A f \in S : RootKey(e) <= RootKey(f)
         IN  <<e>> \o RootList(S \ {e})

\* The roots of a stack on which a reference may sit in more than one slot:
\* the walker reports it once for each.
RootSeqs == UNION {[1..n -> RootEntries] : n \in 0..MaxRoots}

RootLists == {RootList(S) : S \in {T \in SUBSET RootEntries : Cardinality(T) <= MaxRoots}}

\* The heap references among the roots that are on the mutator's stack.
OnStackRefs(roots) ==
    {roots[i].gc_ref : i \in {j \in 1..Len(roots) :
                                 roots[j].on_wasm_stack /\ ~is_i31(roots[j].gc_ref)}}

FreshHostDataId == Min({id \in 1..(Cardinality(host_data_table) + 1) : id \notin host_data_table})

Commit(x) ==
    /\ trace_infos' = x.trace_infos
    /\ no_gc_count' = x.no_gc_count
    /\ activations_table' = x.activations_table
    /\ memory' = x.memory
    /\ vmmemory' = x.vmmemory
    /\ free_list' = x.free_list
    /\ dec_ref_stack' = x.dec_ref_stack
    /\ host_data_table' = x.host_data_table
    /\ panicked' = x.panicked

Called(op, args, x, ok, val) ==
    last' = [op |-> op, args |-> args, ok |-> ok /\ Ok(x), val |-> val]

\* The host may call into the heap: nothing has panicked, no collection
\* borrows the heap, and no allocation is waiting to be initialized.
Idle == panicked = "" /\ collection = None /\ uninit = 0

\* What a collection finds when gc() creates it.
Snapshot ==
    [memory |-> memory, activations_table |-> activations_table, free_list |-> free_list,
     host_data_table |-> host_data_table]

\* ------------------------------------------------------------------- Init

\* DrcHeap::new: a detached heap, in a debug or a release build.
Init ==
    /\ debug_assertions \in BOOLEAN
    /\ trace_infos = <<>>
    /\ no_gc_count = 0
    /\ activations_table = VMGcRefActivationsTable_new
    /\ memory = None
    /\ vmmemory = None
    /\ free_list = None
    /\ dec_ref_stack = Some(<<>>)
    /\ host_data_table = {}
    /\ collection = None
    /\ host_slots = [i \in Slots |-> 0]
    /\ uninit = 0
    /\ lives = 0
    /\ open_scopes = 0
    /\ panicked = ""
    /\ last = [op |-> "new", args |-> <<>>, ok |-> TRUE, val |-> 0]

\* ---------------------------------------------------------------- actions

Attached(x) ==
    /\ Commit(x) /\ Called("attach", <<>>, x, TRUE, 0)
    /\ lives' = IF Ok(x) THEN lives + 1 ELSE lives

Attach ==
    /\ Idle
    /\ IF is_attached(Cur) THEN TRUE ELSE lives < MaxLives
    /\ Attached(attach(Cur, ZeroMemory(MemoryLength)))
    /\ UNCHANGED <<debug_assertions, collection, host_slots, uninit, open_scopes>>

Detached(x) ==
    /\ Commit([x EXCEPT !.host_data_table = IF Ok(x) THEN {} ELSE @])
    /\ Called("detach", <<>>, x, TRUE, 0)
    /\ host_slots' = IF Ok(x) THEN [i \in Slots |-> 0] ELSE host_slots
    /\ open_scopes' = IF Ok(x) THEN 0 ELSE open_scopes

\* Detaching ends the store the heap served: its references, its host-data
\* table and its open scopes go away with it.
Detach ==
    /\ Idle
    /\ Detached(detach(Cur))
    /\ UNCHANGED <<debug_assertions, collection, uninit, lives>>

ScopeChanged(op, x, by) ==
    /\ Commit(x) /\ Called(op, <<>>, x, TRUE, 0)
    /\ open_scopes' = IF Ok(x) THEN open_scopes + by ELSE open_scopes

EnterNoGcScope ==
    /\ Idle
    /\ open_scopes < MaxNoGcDepth
    /\ ScopeChanged("enter_no_gc_scope", enter_no_gc_scope(Cur), 1)
    /\ UNCHANGED <<debug_assertions, host_data_table, collection, host_slots, uninit, lives>>

\* The host leaves a scope it has entered.
ExitNoGcScope ==
    /\ Idle
    /\ open_scopes > 0
    /\ ScopeChanged("exit_no_gc_scope", exit_no_gc_scope(Cur), -1)
    /\ UNCHANGED <<debug_assertions, host_data_table, collection, host_slots, uninit, lives>>

\* What an allocation leaves behind: the host owns the new reference.
Allocated(op, slot, layout, r, is_uninit) ==
    /\ Commit(r.x)
    /\ Called(op, <<layout.size>>, r.x, r.ok, r.val)
    /\ host_slots' = IF Ok(r.x) /\ r.ok THEN [host_slots EXCEPT ![slot] = r.val]
                     ELSE host_slots
    /\ uninit' = IF is_uninit /\ Ok(r.x) /\ r.ok THEN r.val ELSE 0

\* The host gives the host-data entry back when the heap had no room.
give_back_host_data(r, id) ==
    IF Ok(r.x) /\ r.ok THEN r ELSE [r EXCEPT !.x.host_data_table = @ \ {id}]

\* alloc_externref(host_data): the host allocates the host-data entry first.
AllocExternref(slot) ==
    /\ Idle
    /\ host_slots[slot] = 0
    /\ Allocated("alloc_externref", slot, ExternRefLayout,
                 give_back_host_data(
                   alloc_externref([Cur EXCEPT !.host_data_table = @ \cup {FreshHostDataId}],
                                   FreshHostDataId),
                   FreshHostDataId),
                 FALSE)
    /\ UNCHANGED <<debug_assertions, collection, lives, open_scopes>>

AllocStruct(slot, ty) ==
    /\ Idle
    /\ host_slots[slot] = 0
    /\ Allocated("alloc_uninit_struct", slot, StructLayout(ty),
                 alloc_uninit_struct(Cur, ty, StructLayout(ty)), TRUE)
    /\ UNCHANGED <<debug_assertions, collection, lives, open_scopes>>

AllocArray(slot, ty, length) ==
    /\ Idle
    /\ host_slots[slot] = 0
    /\ Allocated("alloc_uninit_array", slot, ArrayLayout(ty, length),
                 alloc_uninit_array(Cur, ty, length, ArrayLayout(ty, length)), TRUE)
    /\ UNCHANGED <<debug_assertions, collection, lives, open_scopes>>

\* The memory with the words of the object at gc_ref overwritten.
WithWords(gc_ref, words) ==
    [memory EXCEPT ![1].data =
        [a \in DOMAIN @ |-> IF a - gc_ref \in DOMAIN words THEN words[a - gc_ref] ELSE @[a]]]

\* The allocating caller initializes the object it was handed ...
InitObject ==
    /\ panicked = "" /\ collection = None /\ uninit /= 0
    /\ memory' = WithWords(uninit, InitWords(Cur, uninit))
    /\ uninit' = 0
    /\ last' = [op |-> "init", args |-> <<uninit>>, ok |-> TRUE, val |-> 0]
    /\ UNCHANGED <<debug_assertions, trace_infos, no_gc_count, activations_table, vmmemory,
                   free_list, dec_ref_stack, host_data_table, collection, host_slots,
                   lives, open_scopes, panicked>>

Deallocated(x) == Commit(x) /\ Called("dealloc_uninit", <<uninit>>, x, TRUE, 0)

\* ... or gives it back: dealloc_uninit_struct / dealloc_uninit_array.
DeallocUninit ==
    /\ panicked = "" /\ collection = None /\ uninit /= 0
    /\ Deallocated(dealloc(Cur, uninit))
    /\ host_slots' = [i \in Slots |-> IF host_slots[i] = uninit THEN 0 ELSE host_slots[i]]
    /\ uninit' = 0
    /\ UNCHANGED <<debug_assertions, collection, lives, open_scopes>>

\* The host stops taking references to an object at MaxRefCount.
SourceOk(source) ==
    IF source = 0 \/ is_i31(source) \/ ~InBounds(Cur, source) THEN TRUE
    ELSE ref_count(Cur, source) < MaxRefCount

Cloned(gc_ref, slot, x) ==
    /\ Commit(x)
    /\ Called("clone_gc_ref", <<gc_ref>>, x, TRUE, gc_ref)
    /\ host_slots' = IF Ok(x) THEN [host_slots EXCEPT ![slot] = gc_ref] ELSE host_slots

\* clone_gc_ref of a reference the host or the mutator holds, into a free
\* host slot.
CloneGcRef(gc_ref, slot) ==
    /\ Idle
    /\ host_slots[slot] = 0
    /\ SourceOk(gc_ref)
    /\ Cloned(gc_ref, slot, clone_gc_ref(Cur, gc_ref))
    /\ UNCHANGED <<debug_assertions, collection, uninit, lives, open_scopes>>

WrittenHostSlot(slot, source, w) ==
    /\ Commit(w.x)
    /\ Called("write_gc_ref", <<HostSlotPlace(slot), host_slots[slot], source>>, w.x, TRUE, 0)
    /\ host_slots' = [host_slots EXCEPT ![slot] = RawOf(w.destination)]

\* write_gc_ref into a slot the host owns; source None drops the reference.
WriteHostSlot(slot, source) ==
    /\ Idle
    /\ SourceOk(source)
    /\ WrittenHostSlot(slot, source,
                       write_gc_ref(Cur, from_raw_u32(host_slots[slot]), from_raw_u32(source)))
    /\ UNCHANGED <<debug_assertions, collection, uninit, lives, open_scopes>>

WrittenField(object, offset, source, w) ==
    /\ Commit(write_u32(w.x, object + offset, RawOf(w.destination)))
    /\ Called("write_gc_ref", <<object + offset, read_u32(Cur, object + offset), source>>,
              w.x, TRUE, 0)

\* write_gc_ref into a reference field of an object the caller holds.
WriteField(object, offset, source) ==
    /\ Idle
    /\ SourceOk(source)
    /\ WrittenField(object, offset, source,
                    write_gc_ref(Cur, from_raw_u32(read_u32(Cur, object + offset)),
                                 from_raw_u32(source)))
    /\ UNCHANGED <<debug_assertions, collection, host_slots, uninit, lives, open_scopes>>

Exposed(slot, x) ==
    /\ Commit(x)
    /\ Called("expose_gc_ref_to_wasm", <<host_slots[slot]>>, x, TRUE, 0)
    /\ host_slots' = IF Ok(x) THEN [host_slots EXCEPT ![slot] = 0] ELSE host_slots

\* expose_gc_ref_to_wasm: the host moves a reference it owns into the
\* activations table, and the mutator now holds it on its stack.
ExposeGcRefToWasm(slot) ==
    /\ Idle
    /\ host_slots[slot] /= 0
    /\ Exposed(slot, expose_gc_ref_to_wasm(Cur, host_slots[slot]))
    /\ UNCHANGED <<debug_assertions, collection, uninit, lives, open_scopes>>

Asked(num_gc_refs, need) ==
    last' = [op |-> "need_gc_before_entering_wasm", args |-> <<num_gc_refs>>,
             ok |-> TRUE, val |-> need]

\* need_gc_before_entering_wasm(num_gc_refs): a query, num_gc_refs a
\* NonZeroUsize.
NeedGcBeforeEnteringWasm(num_gc_refs) ==
    /\ Idle
    /\ Asked(num_gc_refs, need_gc_before_entering_wasm(Cur, num_gc_refs))
    /\ UNCHANGED <<debug_assertions, heap_vars, env_vars, panicked>>

\* The collection remembers what it found, the roots its trace is given and
\* how many increments it took to finish.
Collecting(g) ==
    /\ Commit(g.x)
    /\ Called("gc", <<>>, g.x, TRUE, 0)
    /\ collection' =
          IF IsSome(g.collection)
          THEN Some([phase |-> Unwrap(g.collection).phase, roots |-> {},
                     increments |-> 0, before |-> Snapshot])
          ELSE None

\* gc(roots, host_data_table)
Gc ==
    /\ Idle
    /\ Collecting(gc(Cur))
    /\ UNCHANGED <<debug_assertions, host_slots, uninit, lives, open_scopes>>

\* What an increment leaves behind; a panic leaves the collection as it was.
Stepped(c, roots, r) ==
    /\ Commit(r.x)
    /\ Called("collect_increment", <<>>, r.x, TRUE, r.progress)
    /\ collection' =
          IF Ok(r.x)
          THEN Some([r.collection EXCEPT
                        !.roots = IF c.phase = "Trace" THEN OnStackRefs(roots) ELSE @,
                        !.increments = IF c.phase = "Done" THEN @ ELSE @ + 1])
          ELSE collection

\* collect_increment.  The roots are what the stack walker reports: the
\* references the mutator still has on its stack (the rest of its stack has
\* been popped), inline integers and host-side roots; alloc_ok is whether the
\* global allocator can supply a bigger bump chunk.  Only the trace reads the
\* roots and only a sweep of a full chunk asks the allocator.
CollectIncrement(roots, alloc_ok) ==
    /\ panicked = "" /\ collection /= None
    /\ Unwrap(collection).phase /= "Trace" => roots = <<>>
    /\ ~alloc_ok =>
          /\ Unwrap(collection).phase = "Sweep"
          /\ len(activations_table.alloc) = capacity(activations_table.alloc)
    /\ Stepped(Unwrap(collection), roots,
               collect_increment(Cur, Unwrap(collection), roots, alloc_ok))
    /\ UNCHANGED <<debug_assertions, host_slots, uninit, lives, open_scopes>>

\* The host drops a finished collection, ending its borrow of the heap.
DropCollection ==
    /\ panicked = "" /\ collection /= None
    /\ Unwrap(collection).phase = "Done"
    /\ collection' = None
    /\ last' = [op |-> "drop_collection", args |-> <<>>, ok |-> TRUE, val |-> 0]
    /\ UNCHANGED <<debug_assertions, heap_vars, host_data_table, host_slots,
                   uninit, lives, open_scopes, panicked>>

\* ---------------------------------------------------------- specifications

\* One store's use of the heap: the host attaches it once, allocates
\* externrefs and structs, copies, overwrites and exposes references, and
\* collects.
Next ==
    \/ lives = 0 /\ Attach
    \/ \E slot \in Slots : AllocExternref(slot)
    \/ \E slot \in Slots, ty \in StructTypes : AllocStruct(slot, ty)
    \/ InitObject
    \/ DeallocUninit
    \/ \E gc_ref \in Held, slot \in Slots : CloneGcRef(gc_ref, slot)
    \/ \E slot \in Slots, source \in Held \cup {0} : WriteHostSlot(slot, source)
    \/ \E object \in HeldObjects :
          \E offset \in RefSlotOffsets(Cur, object), source \in Held \cup {0} :
             WriteField(object, offset, source)
    \/ \E slot \in Slots : ExposeGcRefToWasm(slot)
    \/ Gc
    \/ \E roots \in RootLists, alloc_ok \in BOOLEAN : CollectIncrement(roots, alloc_ok)
    \/ DropCollection

Spec == Init /\ [][Next]_vars

\* A heap that is handed from store to store: attached and detached again
\* (also when it must not be), with no-GC scopes, allocations of externrefs
\* and empty arrays that fill the memory, exposed references and collections.
NextReuse ==
    \/ Attach
    \/ Detach
    \/ EnterNoGcScope
    \/ ExitNoGcScope
    \/ \E slot \in Slots : AllocExternref(slot)
    \/ \E slot \in Slots, ty \in ArrayTypes : AllocArray(slot, ty, 0)
    \/ InitObject
    \/ DeallocUninit
    \/ \E slot \in Slots : WriteHostSlot(slot, 0)
    \/ \E slot \in Slots : ExposeGcRefToWasm(slot)
    \/ Gc
    \/ \E roots \in RootLists, alloc_ok \in BOOLEAN : CollectIncrement(roots, alloc_ok)
    \/ DropCollection

SpecReuse == Init /\ [][NextReuse]_vars

\* A store that allocates objects of every kind and overwrites references,
\* inline integers among them, without collecting.
NextAlloc ==
    \/ lives = 0 /\ Attach
    \/ \E slot \in Slots : AllocExternref(slot)
    \/ \E slot \in Slots, ty \in StructTypes : AllocStruct(slot, ty)
    \/ \E slot \in Slots, ty \in ArrayTypes, length \in 0..MaxArrayLen :
          AllocArray(slot, ty, length)
    \/ InitObject
    \/ DeallocUninit
    \/ \E slot \in Slots : WriteHostSlot(slot, 0)
    \/ \E object \in HeldObjects :
          \E offset \in RefSlotOffsets(Cur, object), source \in Held \cup {0, I31Ref} :
             WriteField(object, offset, source)

SpecAlloc == Init /\ [][NextAlloc]_vars

\* The activations table of one store: references are exposed, the host asks
\* whether it must collect before entering the mutator, and collects.
NextTable ==
    \/ lives = 0 /\ Attach
    \/ \E slot \in Slots : AllocExternref(slot)
    \/ \E gc_ref \in HostHeld, slot \in Slots : CloneGcRef(gc_ref, slot)
    \/ \E slot \in Slots : ExposeGcRefToWasm(slot)
    \/ \E num_gc_refs \in 1..MaxGcRefs : NeedGcBeforeEnteringWasm(num_gc_refs)
    \/ Gc
    \/ \E roots \in RootLists, alloc_ok \in BOOLEAN : CollectIncrement(roots, alloc_ok)
    \/ DropCollection

SpecTable == Init /\ [][NextTable]_vars

\* A store whose host also holds inline integers: it copies them, writes
\* them into slots and fields, exposes them and collects.
NextInline ==
    \/ lives = 0 /\ Attach
    \/ \E slot \in Slots, ty \in StructTypes : AllocStruct(slot, ty)
    \/ InitObject
    \/ \E slot \in Slots : CloneGcRef(I31Ref, slot)
    \/ \E slot \in Slots, source \in {0, I31Ref} : WriteHostSlot(slot, source)
    \/ \E object \in HeldObjects :
          \E offset \in RefSlotOffsets(Cur, object), source \in {0, I31Ref} :
             WriteField(object, offset, source)
    \/ \E slot \in Slots : ExposeGcRefToWasm(slot)
    \/ Gc
    \/ \E roots \in RootLists, alloc_ok \in BOOLEAN : CollectIncrement(roots, alloc_ok)
    \/ DropCollection

SpecInline == Init /\ [][NextInline]_vars

\* A store whose mutator holds references in several stack slots at once:
\* the roots of a collection repeat them.
NextTrace ==
    \/ lives = 0 /\ Attach
    \/ \E slot \in Slots : AllocExternref(slot)
    \/ \E gc_ref \in HostHeld, slot \in Slots : CloneGcRef(gc_ref, slot)
    \/ \E slot \in Slots : ExposeGcRefToWasm(slot)
    \/ Gc
    \/ \E roots \in RootSeqs, alloc_ok \in BOOLEAN : CollectIncrement(roots, alloc_ok)
    \/ DropCollection

SpecTrace == Init /\ [][NextTrace]_vars

\* An array long enough for two of its elements to hold the same child.
SharedArrayLen == MaxArrayLen + 1
RefArrayTypes == {ty \in ArrayTypes : TypeRegistry[ty].elems_are_gc_refs}

\* A memory with room for such an array and a child of it.
SharedMemoryLength ==
    FreeListAlign + RoundUp(ArrayLayout(Min(RefArrayTypes), SharedArrayLen).size, FreeListAlign)
                  + ExternRefLayout.size

\* attach of a memory of that length.
AttachShared ==
    /\ Idle
    /\ lives = 0
    /\ Attached(attach(Cur, ZeroMemory(SharedMemoryLength)))
    /\ UNCHANGED <<debug_assertions, collection, host_slots, uninit, open_scopes>>

\* write_gc_ref into an element of an array the caller holds, of a
\* reference the host holds; the host may store one reference in a second
\* element, which takes its count one past MaxRefCount.
WriteSharedField(object, offset, source) ==
    /\ Idle
    /\ source /= 0 => ref_count(Cur, source) <= MaxRefCount
    /\ WrittenField(object, offset, source,
                    write_gc_ref(Cur, from_raw_u32(read_u32(Cur, object + offset)),
                                 from_raw_u32(source)))
    /\ UNCHANGED <<debug_assertions, collection, host_slots, uninit, lives, open_scopes>>

\* The externrefs the host holds: the children it stores in arrays.
HostHeldExternRefs == {r \in HostHeld : header_kind(header(Cur, r)) = KindExternRef}

\* A store whose objects share children: a parent array holds one child in
\* several elements, and one object has several entries in the activations
\* table.
NextShared ==
    \/ AttachShared
    \/ \E slot \in Slots : AllocExternref(slot)
    \/ \E slot \in Slots, ty \in RefArrayTypes : AllocArray(slot, ty, SharedArrayLen)
    \/ InitObject
    \/ DeallocUninit
    \/ \E gc_ref \in HostHeldExternRefs, slot \in Slots : CloneGcRef(gc_ref, slot)
    \/ \E slot \in Slots : WriteHostSlot(slot, 0)
    \/ \E object \in HeldObjects :
          \E offset \in RefSlotOffsets(Cur, object), source \in HostHeldExternRefs \cup {0} :
             WriteSharedField(object, offset, source)
    \/ \E slot \in Slots : ExposeGcRefToWasm(slot)
    \/ Gc
    \/ \E roots \in RootLists, alloc_ok \in BOOLEAN : CollectIncrement(roots, alloc_ok)
    \/ DropCollection

SpecShared == Init /\ [][NextShared]_vars

\* The embedding grows a memory by nothing or by the room of one more
\* object, up to MaxGrownLength.
GrowDeltas == {0, ExternRefLayout.size}
MaxGrownLength == MemoryLength + ExternRefLayout.size

\* The memory the embedding hands back after growing mem: the same bytes,
\* followed by zeroes.
Grown(mem, delta) ==
    [data |-> [a \in Addrs(mem.len + delta) |-> IF a < mem.len THEN mem.data[a] ELSE 0],
     len |-> mem.len + delta]

\* The embedding has taken the memory out of the heap and has not yet put
\* it back.
Taken == panicked = "" /\ last.op = "take_memory" /\ last.ok

\* take_memory: the caller gets the memory.
TakeMemory ==
    /\ Idle
    /\ ~Taken
    /\ \E r \in {take_memory(Cur)} :
          /\ Commit(r.x)
          /\ Called("take_memory", <<>>, r.x, TRUE, r.memory)
    /\ UNCHANGED <<debug_assertions, collection, host_slots, uninit, lives, open_scopes>>

\* replace_memory(memory, delta_bytes_grown) with the memory taken before,
\* grown by delta_bytes_grown.
ReplaceMemory(delta) ==
    /\ Taken /\ collection = None
    /\ Unwrap(last.val).len + delta <= MaxGrownLength
    /\ \E x \in {replace_memory(Cur, Grown(Unwrap(last.val), delta), delta)} :
          /\ Commit(x)
          /\ Called("replace_memory", <<delta>>, x, TRUE, 0)
    /\ UNCHANGED <<debug_assertions, collection, host_slots, uninit, lives, open_scopes>>

\* A store whose embedding grows the heap's memory: it takes the memory out,
\* grows it and puts it back, and may attach or detach the heap at any time.
NextGrow ==
    \/ Attach
    \/ Detach
    \/ ~Taken /\ \E slot \in Slots : AllocExternref(slot)
    \/ ~Taken /\ \E slot \in Slots : ExposeGcRefToWasm(slot)
    \/ ~Taken /\ \E slot \in Slots : WriteHostSlot(slot, 0)
    \/ TakeMemory
    \/ \E delta \in GrowDeltas : ReplaceMemory(delta)

SpecGrow == Init /\ [][NextGrow]_vars

\* ------------------------------------------------------------- properties

\* An object is allocated when the free list does not own its block.
IsAllocated(fl, mem, gc_ref) ==
    /\ IsSome(fl) /\ IsSome(mem)
    /\ gc_ref % FreeListAlign = 0
    /\ gc_ref >= FreeListAlign /\ gc_ref + HEADER_SIZE <= Unwrap(mem).len
    /\ gc_ref \notin Unwrap(fl).free

\* The objects the reference fields of an initialized, allocated object
\* point to.
Targets(x, gc_ref) ==
    IF ~IsAllocated(x.free_list, x.memory, gc_ref) \/ gc_ref = uninit THEN {}
    ELSE {read_u32(x, gc_ref + off) : off \in RefSlotOffsets(x, gc_ref)} \ {0, I31Ref}

\* Everything reachable from a set of objects through reference fields.
RECURSIVE Reachable(_, _)
Reachable(x, S) ==
    LET T == S \cup UNION {Targets(x, r) : r \in S}
    IN  IF T = S THEN S ELSE Reachable(x, T)

\* C1: every object that is held by a host reference, by a reference field
\* of a live object, by a filled bump-chunk slot or by the over-approximated
\* set is allocated and has a reference count of at least 1.
C1_HeldObjectsAreLive ==
    panicked = "" =>
        \A r \in Reachable(Cur, HeldObjects) :
           /\ IsAllocated(free_list, memory, r)
           /\ ref_count(Cur, r) >= 1

\* An object is held twice, by a field of another object and by the
\* over-approximated set, and counts both holders.
C1_Witness ==
    /\ panicked = "" /\ collection = None
    /\ \E r \in activations_table.over_approximated_stack_roots :
          /\ \E o \in HeldObjects \ {r} : r \in Targets(Cur, o)
          /\ ref_count(Cur, r) = 2

\* A raw word that refers to an object in the heap.
IsHeapRef(raw) == raw /= 0 /\ ~is_i31(raw)

\* What a place holds after the step: a host slot or a word of the memory.
HoldsAfter(place) ==
    IF place < 0 THEN host_slots'[0 - place]
    ELSE Unwrap(memory').data[place]

\* The events of the write_gc_ref call the step made, in the order they
\* happened.
WriteLog == write_gc_ref(Cur, from_raw_u32(last'.args[2]), from_raw_u32(last'.args[3])).x.log

\* The events are: the increment of the source if it is a heap reference,
\* then the decrement of the old value if it is one, then the rest of its
\* cascade with every object whose count reached zero deallocated, then the
\* one store.
OrderOk(log, old, source) ==
    LET first == IF IsHeapRef(source) THEN 2 ELSE 1
    IN  /\ Len(log) >= 1
        /\ log[Len(log)] = <<"store", source, 0>>
        /\ \A i \in 1..(Len(log) - 1) : log[i][1] /= "store"
        /\ IsHeapRef(source) => log[1][1] = "inc" /\ log[1][2] = source
        /\ \A i \in first..Len(log) : log[i][1] /= "inc"
        /\ IF IsHeapRef(old)
           THEN first < Len(log) /\ log[first][1] = "dec" /\ log[first][2] = old
           ELSE first = Len(log)
        /\ \A i \in 1..Len(log) :
              log[i][1] = "dec" /\ log[i][3] = 0 =>
                 \E j \in (i + 1)..(Len(log) - 1) :
                    log[j][1] = "dealloc" /\ log[j][2] = log[i][2]

\* C2: write_gc_ref increments the source first, then runs the decrement of
\* the old destination value with its whole cascade, and only then stores;
\* afterwards the destination holds the source (or None).
C2_WriteBarrierOrder ==
    [][last'.op = "write_gc_ref" =>
          /\ panicked' = ""
          /\ \A log \in {WriteLog} : OrderOk(log, last'.args[2], last'.args[3])
          /\ HoldsAfter(last'.args[1]) = last'.args[3]
          /\ dec_ref_stack' = Some(<<>>)]_vars

\* A write into an array element replaced the only reference to an object
\* by a reference to another one: one increment, a cascade that freed the
\* old object, one store.
C2_Witness ==
    /\ last.op = "write_gc_ref" /\ panicked = ""
    /\ last.args[1] > 0
    /\ header_kind(header(Cur, last.args[1] - GC_REF_ARRAY_ELEMS_OFFSET)) = KindArrayRef
    /\ IsHeapRef(last.args[2]) /\ IsHeapRef(last.args[3])
    /\ last.args[2] /= last.args[3]
    /\ ~IsAllocated(free_list, memory, last.args[2])
    /\ ref_count(Cur, last.args[3]) = 2

\* C3: a write_gc_ref whose destination is a slot holding R with count 1
\* and whose source is R never deallocates R, never brings its count to 0,
\* and ends with count 1 and the slot still holding R.
C3_SelfAssignment ==
    [][/\ last'.op = "write_gc_ref"
       /\ IsHeapRef(last'.args[3]) /\ last'.args[2] = last'.args[3]
       /\ ref_count(Cur, last'.args[3]) = 1
       =>
       /\ panicked' = ""
       /\ \A log \in {WriteLog} : \A i \in 1..Len(log) :
             log[i][2] = last'.args[3] =>
                /\ log[i][1] /= "dealloc"
                /\ log[i][1] \in {"inc", "dec"} => log[i][3] >= 1
       /\ IsAllocated(free_list', memory', last'.args[3])
       /\ Unwrap(memory').data[last'.args[3] + HEADER_REF_COUNT_OFFSET] = 1
       /\ HoldsAfter(last'.args[1]) = last'.args[3]]_vars

\* A host slot was overwritten with the reference it held, the only one to
\* its object.
C3_Witness ==
    /\ last.op = "write_gc_ref" /\ panicked = ""
    /\ last.args[1] < 0
    /\ IsHeapRef(last.args[3]) /\ last.args[2] = last.args[3]
    /\ host_slots[0 - last.args[1]] = last.args[3]
    /\ ref_count(Cur, last.args[3]) = 1

\* A collection that has run its trace and its sweep.
GcComplete ==
    /\ panicked = "" /\ collection /= None
    /\ Unwrap(collection).phase = "Done"

\* The heap as the collection found it when gc() created it.
BeforeGc ==
    [Cur EXCEPT !.memory = Unwrap(collection).before.memory,
                !.free_list = Unwrap(collection).before.free_list,
                !.activations_table = Unwrap(collection).before.activations_table,
                !.host_data_table = Unwrap(collection).before.host_data_table]

\* How many entries of the activations table hold r: filled slots of the
\* bump chunk, and the over-approximated set.
TableEntries(at, r) ==
    Cardinality({i \in 1..IntMin(len(at.alloc), Len(at.alloc.chunk)) : at.alloc.chunk[i] = r})
    + (IF r \in at.over_approximated_stack_roots THEN 1 ELSE 0)

\* The objects the collection deallocated, and how many of their reference
\* fields held r.
FreedByGc ==
    {o \in Reachable(BeforeGc, HostHeld \cup {e \in elements(BeforeGc.activations_table) :
                                                 ~is_i31(e)}) :
        ~IsAllocated(free_list, memory, o)}

FreedFieldsHolding(r) ==
    Cardinality({p \in FreedByGc \X Addrs(MemoryLength) :
                    /\ p[2] \in RefSlotOffsets(BeforeGc, p[1])
                    /\ read_u32(BeforeGc, p[1] + p[2]) = r})

\* C4 as stated: a complete collection whose on-stack roots contain an
\* exposed r leaves r allocated and its count what it was before.
C4_CountUnchanged ==
    GcComplete =>
        \A r \in Unwrap(collection).roots :
           /\ IsAllocated(free_list, memory, r)
           /\ ref_count(Cur, r) = ref_count(BeforeGc, r)

\* C4, amended: a complete collection whose on-stack roots contain an
\* exposed r leaves r allocated; its count gains the one reference the new
\* over-approximated set holds and loses one for every table entry that held
\* r and one for every field of a deallocated object that held r.  The count
\* is what it was before when r had one table entry and no deallocated
\* object referred to it.
C4_RootSurvives ==
    GcComplete =>
        \A r \in Unwrap(collection).roots :
           /\ IsAllocated(free_list, memory, r)
           /\ r \in activations_table.over_approximated_stack_roots
           /\ ref_count(Cur, r) >= 1
           /\ ref_count(Cur, r) =
                 ref_count(BeforeGc, r) + 1
                 - TableEntries(BeforeGc.activations_table, r) - FreedFieldsHolding(r)

\* A complete collection kept two roots, one that was in the bump chunk and
\* one that had been spilled, each with the count it had before.
C4_Witness ==
    /\ GcComplete
    /\ \E r, q \in Unwrap(collection).roots :
          /\ \E i \in 1..len(BeforeGc.activations_table.alloc) :
                BeforeGc.activations_table.alloc.chunk[i] = r
          /\ q \in BeforeGc.activations_table.over_approximated_stack_roots
          /\ r /= q
          /\ ref_count(Cur, r) = ref_count(BeforeGc, r)
          /\ ref_count(Cur, q) = ref_count(BeforeGc, q)

\* The heap references the table held, and the objects that were reachable,
\* when the collection was created.
TableRefs(at) == {e \in elements(at) : ~is_i31(e)}
LiveBeforeGc == Reachable(BeforeGc, HostHeld \cup TableRefs(BeforeGc.activations_table))

\* The objects whose reference fields held q.
FieldHolders(q) == {o \in LiveBeforeGc : q \in Targets(BeforeGc, o)}

\* The objects the table alone kept alive: not held by the host, not among
\* the on-stack roots, and held by no field, or only by fields of objects
\* the table alone kept alive.
RECURSIVE OnlyTableHeld(_)
OnlyTableHeld(D) ==
    LET N == D \cup {q \in LiveBeforeGc :
                        /\ q \notin HostHeld
                        /\ q \notin Unwrap(collection).roots
                        /\ FieldHolders(q) \subseteq D}
    IN  IF N = D THEN D ELSE OnlyTableHeld(N)

\* C5: a complete collection deallocates every object that only entries of
\* the bump chunk or of the over-approximated set held and that is not among
\* its on-stack roots, and every object only those held.
C5_GcFreesUnrooted ==
    GcComplete => \A o \in OnlyTableHeld({}) : ~IsAllocated(free_list, memory, o)

PhaseAfter(increments) ==
    IF increments = 0 THEN "Trace" ELSE IF increments = 1 THEN "Sweep" ELSE "Done"

\* C7: a collection only moves Trace -> Sweep -> Done.  The first increment
\* runs the trace and returns Continue, the second runs the sweep and
\* returns Complete, every later one returns Complete and changes nothing;
\* the sweep does not run before the trace, each runs once, and the
\* collection is complete after exactly two increments.
C7_CollectionPhases ==
    /\ [](collection /= None /\ panicked = "" =>
             /\ Unwrap(collection).phase = PhaseAfter(Unwrap(collection).increments)
             /\ Unwrap(collection).increments \in 0..2
             /\ last.op = "collect_increment" =>
                   last.val = (IF Unwrap(collection).phase = "Done"
                               THEN "Complete" ELSE "Continue"))
    /\ [][last'.op = "gc" /\ collection' /= None =>
             Unwrap(collection').phase = "Trace" /\ Unwrap(collection').increments = 0]_vars
    /\ [][last'.op = "collect_increment" =>
             /\ panicked' = "" /\ collection /= None /\ collection' /= None
             /\ IF Unwrap(collection).phase = "Trace"
                THEN /\ last'.val = "Continue"
                     /\ Unwrap(collection').phase = "Sweep"
                     /\ activations_table'.precise_stack_roots = Unwrap(collection').roots
                     /\ activations_table'.alloc = activations_table.alloc
                     /\ activations_table'.over_approximated_stack_roots
                           = activations_table.over_approximated_stack_roots
                     /\ free_list' = free_list
                ELSE IF Unwrap(collection).phase = "Sweep"
                THEN /\ last'.val = "Complete"
                     /\ Unwrap(collection').phase = "Done"
                     /\ activations_table'.over_approximated_stack_roots
                           = activations_table.precise_stack_roots
                     /\ activations_table'.precise_stack_roots = {}
                     /\ len(activations_table'.alloc) = 0
                ELSE /\ last'.val = "Complete"
                     /\ Unwrap(collection').phase = "Done"
                     /\ UNCHANGED <<heap_vars, host_data_table>>]_vars

\* A collection is complete after two increments: its trace counted a root
\* and its sweep emptied a filled bump chunk.
C7_Witness ==
    /\ GcComplete /\ Unwrap(collection).increments = 2
    /\ last.op = "collect_increment" /\ last.val = "Complete"
    /\ Unwrap(collection).roots /= {}
    /\ len(BeforeGc.activations_table.alloc) >= 1

\* C8: after every sweep (of an attached heap) every slot of the bump chunk
\* is zero, the precise set is empty, next is at the start of the chunk and
\* end one past its last slot.
C8_SweepEmptiesTable ==
    GcComplete /\ is_attached(Cur) =>
        /\ \A i \in 1..Len(activations_table.alloc.chunk) :
              activations_table.alloc.chunk[i] = 0
        /\ activations_table.precise_stack_roots = {}
        /\ activations_table.alloc.next = 0
        /\ activations_table.alloc.end = Len(activations_table.alloc.chunk) * SizeOfU32

AllocOps == {"alloc_externref", "alloc_uninit_struct", "alloc_uninit_array"}

\* The cells of the block the free list hands out for size bytes at index.
BlockOf(index, size) == BlockCells(index, RoundUp(size, FreeListAlign))

\* C9: a successful allocation returns a reference to an object whose
\* header has count 1 and object_size layout.size, whose block was free
\* before (so it is no live object), and adds nothing to the activations
\* table.
C9_AllocFresh ==
    [][last'.op \in AllocOps /\ last'.ok =>
          /\ panicked' = ""
          /\ IsHeapRef(last'.val)
          /\ Unwrap(memory').data[last'.val + HEADER_REF_COUNT_OFFSET] = 1
          /\ Unwrap(memory').data[last'.val + HEADER_OBJECT_SIZE_OFFSET] = last'.args[1]
          /\ BlockOf(last'.val, last'.args[1]) \subseteq Unwrap(free_list).free
          /\ BlockOf(last'.val, last'.args[1]) \cap Unwrap(free_list').free = {}
          /\ last'.val \notin Reachable(Cur, HeldObjects)
          /\ \A o \in Reachable(Cur, HeldObjects) :
                BlockOf(o, object_size(Cur, o)) \cap BlockOf(last'.val, last'.args[1]) = {}
          /\ activations_table' = activations_table]_vars

\* An array whose layout is smaller than its block was allocated in a block
\* that an earlier object had been freed from, next to a live object.
C9_Witness ==
    /\ last.op = "alloc_uninit_array" /\ last.ok /\ panicked = ""
    /\ last.args[1] < RoundUp(last.args[1], FreeListAlign)
    /\ ref_count(Cur, last.val) = 1 /\ object_size(Cur, last.val) = last.args[1]
    /\ read_u32(Cur, last.val + last.args[1]) /= 0
    /\ \E o \in HostHeld : IsHeapRef(o) /\ o /= last.val

\* Whether the free list has a block for size bytes.
Fits(size) ==
    /\ IsSome(free_list)
    /\ IsSome(FreeList_alloc(Unwrap(free_list), [size |-> size, align |-> HEADER_ALIGN]).index)

\* C10: when the free list has no block that fits the layout, an allocation
\* returns Err(layout.size) without panicking and leaves the free list, the
\* memory with every header, the activations table and no_gc_count as they
\* were.
C10_AllocOutOfHeap ==
    [][last'.op \in AllocOps /\ IsSome(free_list) /\ ~Fits(last'.args[1]) =>
          /\ panicked' = ""
          /\ ~last'.ok
          /\ last'.val = last'.args[1]
          /\ UNCHANGED <<free_list, memory, vmmemory, activations_table, no_gc_count,
                         dec_ref_stack, host_data_table, host_slots>>]_vars

\* An allocation of an array found the memory full, inside a no-GC scope and
\* with a reference in the bump chunk, and returned the 28 bytes it needs.
C10_Witness ==
    /\ last.op = "alloc_uninit_array" /\ ~last.ok /\ panicked = ""
    /\ last.val = last.args[1] /\ last.val < RoundUp(last.val, FreeListAlign)
    /\ no_gc_count = 1
    /\ len(activations_table.alloc) >= 1
    /\ ~Fits(last.args[1])

\* The context with the bump chunk given one more reference.
WithSlotFilled(x, gc_ref) ==
    [x EXCEPT !.activations_table.alloc.chunk[SlotAt(x.activations_table.alloc.next)] =
                  as_raw_u32(gc_ref),
              !.activations_table.alloc.next = @ + SizeOfU32]

\* C11: try_insert(r) with next = end returns Err(r) and changes nothing;
\* otherwise it writes r's raw word into the slot at next, advances next by
\* one slot and returns Ok, changing no count and no other slot.  Stated of
\* the try_insert every expose_gc_ref_to_wasm begins with.
C11_TryInsert ==
    [][last'.op = "expose_gc_ref_to_wasm" =>
          \A t \in {try_insert(Cur, last'.args[1])} :
             IF activations_table.alloc.next = activations_table.alloc.end
             THEN ~t.ok /\ t.gc_ref = last'.args[1] /\ t.x = Cur
             ELSE t.ok /\ t.x = WithSlotFilled(Cur, last'.args[1])]_vars

\* C12: expose_gc_ref_to_wasm(r) leaves r in the bump chunk or in the
\* over-approximated set: in the chunk, the set unchanged, when the chunk
\* has a free slot; in the set, the chunk and its fingers unchanged, when it
\* has none.  No count changes and no collection runs.
C12_ExposeInserts ==
    [][last'.op = "expose_gc_ref_to_wasm" =>
          /\ panicked' = ""
          /\ last'.args[1] \in elements(activations_table')
          /\ IF activations_table.alloc.next = activations_table.alloc.end
             THEN activations_table' =
                     [activations_table EXCEPT !.over_approximated_stack_roots =
                                                   @ \cup {last'.args[1]}]
             ELSE activations_table' = WithSlotFilled(Cur, last'.args[1]).activations_table
          /\ UNCHANGED <<memory, free_list, host_data_table, collection, no_gc_count>>]_vars

\* The free slots of the bump chunk.
FreeSlots == (activations_table.alloc.end - activations_table.alloc.next) \div SizeOfU32

\* C13: need_gc_before_entering_wasm(n) is true exactly when n is greater
\* than the number of free slots of the bump chunk, so that after false n
\* references fit in the chunk (the question leaves the table as it is).
C13_NeedGc ==
    last.op = "need_gc_before_entering_wasm" =>
       last.val = (last.args[1] > FreeSlots)

\* The heap as the dec_ref_and_maybe_dealloc of a write_gc_ref step finds
\* it (the source already counted), and as it leaves it.
BeforeDec == [inc_source(Cur, from_raw_u32(last'.args[3])) EXCEPT !.log = <<>>]
AfterDec == dec_ref_and_maybe_dealloc(BeforeDec, last'.args[2])

\* The events of one kind on one object, as indices of the log.
EventsOn(log, kind, q) == {i \in 1..Len(log) : log[i][1] = kind /\ log[i][2] = q}

\* The objects a log deallocated, and the reference fields of those objects
\* that held q before.
FreedIn(log) == {log[i][2] : i \in {j \in 1..Len(log) : log[j][1] = "dealloc"}}
FieldsHolding(x, objects, q) ==
    {p \in objects \X Addrs(MemoryLength) :
        p[2] \in RefSlotOffsets(x, p[1]) /\ read_u32(x, p[1] + p[2]) = q}

\* The heap references a cascade can meet.
HeapRefs == {a \in Addrs(MemoryLength) : a >= FreeListAlign /\ a % FreeListAlign = 0
                                           /\ a + HEADER_SIZE <= MemoryLength}

\* The objects allocated in an attached heap: the blocks the free list does
\* not own, walked from the first by their sizes.
RECURSIVE ObjectsFrom(_, _)
ObjectsFrom(x, a) ==
    IF a + HEADER_SIZE > Unwrap(x.free_list).capacity THEN {}
    ELSE IF a \in Unwrap(x.free_list).free THEN ObjectsFrom(x, a + FreeListAlign)
    ELSE {a} \cup ObjectsFrom(x, a + RoundUp(object_size(x, a), FreeListAlign))

Objects(x) ==
    IF IsSome(x.free_list) /\ IsSome(x.memory) THEN ObjectsFrom(x, FreeListAlign) ELSE {}

\* What dec_ref_and_maybe_dealloc(r) does, from before to after with its
\* log: r is decremented first, by one; an object is deallocated exactly
\* when a decrement brought it to zero, once, after that decrement; every
\* object is decremented once for r and once for each reference field of a
\* deallocated object that held it, and not otherwise; survivors keep a
\* count of at least 1 and stay allocated.
CascadeOk(before, after, r) ==
    LET log == after.log
        freed == FreedIn(log)
    IN  /\ Ok(after)
        /\ Len(log) >= 1 /\ log[1] = <<"dec", r, ref_count(before, r) - 1>>
        /\ \A i \in 1..Len(log) :
              /\ log[i][1] \in {"dec", "dealloc", "host_dealloc"}
              /\ log[i][1] /= "host_dealloc" => log[i][2] \in Objects(before)
        /\ \A q \in Objects(before) :
              /\ Cardinality(EventsOn(log, "dec", q))
                    = (IF q = r THEN 1 ELSE 0)
                      + Cardinality(FieldsHolding(before, freed, q))
              /\ ref_count(after, q)
                    = ref_count(before, q) - Cardinality(EventsOn(log, "dec", q))
              /\ Cardinality(EventsOn(log, "dealloc", q)) = (IF q \in freed THEN 1 ELSE 0)
              /\ IF q \in freed
                 THEN /\ ref_count(after, q) = 0
                      /\ ~IsAllocated(after.free_list, after.memory, q)
                      /\ \A i \in EventsOn(log, "dealloc", q) :
                            \A j \in EventsOn(log, "dec", q) : j < i
                 ELSE /\ EventsOn(log, "dec", q) /= {} => ref_count(after, q) >= 1
                      /\ IsAllocated(before.free_list, before.memory, q)
                            => IsAllocated(after.free_list, after.memory, q)

\* C14: dec_ref_and_maybe_dealloc(r) decrements r by exactly one; every
\* object whose count reaches zero has each nonzero outgoing reference
\* decremented once in turn and is returned to the free list; an object
\* whose count stays at least 1 is not freed and its outgoing references are
\* not decremented.  Stated of the decrement every write_gc_ref over a heap
\* reference makes.
C14_DecRefCascade ==
    [][last'.op = "write_gc_ref" /\ IsHeapRef(last'.args[2]) =>
          \A after \in {AfterDec} : CascadeOk(BeforeDec, after, last'.args[2])]_vars

\* The host dropped its reference to an array whose element was the only
\* reference to another object: both were deallocated.
C14_Witness ==
    /\ last.op = "write_gc_ref" /\ panicked = "" /\ last.args[1] < 0
    /\ last.args[3] = 0 /\ IsHeapRef(last.args[2])
    /\ header_kind(header(Cur, last.args[2])) = KindArrayRef
    /\ ~IsAllocated(free_list, memory, last.args[2])
    /\ \E q \in HeapRefs \ {last.args[2]} :
          /\ read_u32(Cur, last.args[2] + GC_REF_ARRAY_ELEMS_OFFSET) = q
          /\ array_len(Cur, last.args[2]) = 1
          /\ ref_count(Cur, q) = 0
          /\ ~IsAllocated(free_list, memory, q)

ExternRefs(x) == {o \in Objects(x) : header_kind(header(x, o)) = KindExternRef}
HostDataOf(x, o) == read_u32(x, o + EXTERNREF_HOST_DATA_OFFSET)

\* C15: the host data of an externref is deallocated exactly once, when its
\* count reaches zero and the object goes back to the free list, and never
\* while its count is at least 1: at every point the entries of the
\* host-data table are the host data of the allocated externrefs, one each,
\* all of which have a count of at least 1, and no entry is deallocated a
\* second time.
C15_HostDataFollowsExternRef ==
    /\ panicked /= "host data id is not allocated"
    /\ panicked = "" =>
          /\ \A o \in ExternRefs(Cur) :
                ref_count(Cur, o) >= 1 /\ HostDataOf(Cur, o) \in host_data_table
          /\ \A o, q \in ExternRefs(Cur) : HostDataOf(Cur, o) = HostDataOf(Cur, q) => o = q
          /\ host_data_table = {HostDataOf(Cur, o) : o \in ExternRefs(Cur)}

\* A complete collection deallocated one externref, whose host data is gone,
\* and kept another, whose host data is still in the table.
C15_Witness ==
    /\ GcComplete
    /\ \E o \in ExternRefs(BeforeGc) :
          /\ o \notin Objects(Cur)
          /\ HostDataOf(BeforeGc, o) \notin host_data_table
          /\ HostDataOf(BeforeGc, o) \in BeforeGc.host_data_table
    /\ \E q \in ExternRefs(Cur) : HostDataOf(Cur, q) \in host_data_table

\* Two allocated, initialized objects each of which holds the other in a
\* reference field.
Cycle(x, A, B) ==
    /\ A /= B /\ A \in Objects(x) /\ B \in Objects(x)
    /\ A /= uninit /\ B /= uninit
    /\ B \in Targets(x, A) /\ A \in Targets(x, B)

\* The places of the reference fields of an object.
FieldPlaces(x, o) == {o + off : off \in RefSlotOffsets(x, o)}

\* C16: cycles are never collected.  Two structs that hold each other stay
\* allocated with a count of at least 1 through every step that does not
\* overwrite one of their fields: when every reference from outside the
\* cycle is dropped, and through every collection.
C16_CyclesAreKept ==
    [][\A objects \in {Objects(Cur)} : \A A, B \in objects :
          /\ panicked = "" /\ A < B /\ Cycle(Cur, A, B)
          /\ ~(last'.op = "write_gc_ref"
                 /\ last'.args[1] \in FieldPlaces(Cur, A) \cup FieldPlaces(Cur, B))
          =>
          /\ panicked' = ""
          /\ Cycle(Cur, A, B)'
          /\ (ref_count(Cur, A) >= 1 /\ ref_count(Cur, B) >= 1)']_vars

\* A complete collection has run over a cycle that neither the host nor the
\* activations table refers to any more.
C16_Witness ==
    /\ GcComplete /\ Unwrap(collection).increments = 2
    /\ HostHeld = {} /\ elements(activations_table) = {}
    /\ elements(BeforeGc.activations_table) /= {}
    /\ \E A, B \in HeapRefs :
          Cycle(Cur, A, B) /\ ref_count(Cur, A) = 1 /\ ref_count(Cur, B) = 1

\* A raw word that is no heap reference: None or an inline integer.
NoHeapRef(raw) == raw = 0 \/ is_i31(raw)

\* C17: inline integers are no-ops for reference counting.  clone_gc_ref
\* of one returns it and changes nothing; a write_gc_ref whose source and
\* old value are inline integers (or None) changes nothing but the
\* destination; no write, with whatever cascade, makes an increment, a
\* decrement or a deallocation at an inline integer; a trace changes the
\* counts of the heap references among its roots only; and a sweep of a
\* table that holds inline integers only changes no count and deallocates
\* nothing.
C17_InlineIntegers ==
    [][/\ last'.op = "clone_gc_ref" /\ is_i31(last'.args[1]) =>
             /\ panicked' = "" /\ last'.val = last'.args[1]
             /\ UNCHANGED heap_vars
       /\ last'.op = "write_gc_ref" =>
             /\ \A log \in {WriteLog} : \A i \in 1..Len(log) :
                   log[i][1] /= "store" => log[i][2] \in HeapRefs
             /\ NoHeapRef(last'.args[2]) /\ NoHeapRef(last'.args[3]) =>
                   /\ panicked' = ""
                   /\ HoldsAfter(last'.args[1]) = last'.args[3]
                   /\ UNCHANGED <<free_list, activations_table, host_data_table>>
                   /\ IF last'.args[1] < 0 THEN UNCHANGED memory
                      ELSE \A a \in Addrs(MemoryLength) :
                              a /= last'.args[1] =>
                                 Unwrap(memory').data[a] = Unwrap(memory).data[a]
       /\ last'.op = "collect_increment" /\ Unwrap(collection).phase = "Trace" =>
             /\ panicked' = ""
             /\ UNCHANGED free_list
             /\ IF ~is_attached(Cur) THEN UNCHANGED memory
                ELSE \A a \in Addrs(MemoryLength) :
                        Unwrap(memory').data[a] =
                           Unwrap(memory).data[a]
                           + (IF a - HEADER_REF_COUNT_OFFSET \in Unwrap(collection').roots
                              THEN 1 ELSE 0)
       /\ /\ last'.op = "collect_increment" /\ Unwrap(collection).phase = "Sweep"
          /\ \A e \in elements(activations_table) : is_i31(e)
          /\ activations_table.precise_stack_roots = {}
          =>
             /\ panicked' = ""
             /\ UNCHANGED <<memory, free_list, host_data_table>>
             /\ elements(activations_table') = {}]_vars

\* A collection swept an inline integer out of the bump chunk, next to a
\* struct that holds an inline integer in its field; nothing was counted.
C17_Witness ==
    /\ GcComplete /\ Unwrap(collection).increments = 2
    /\ \E i \in 1..len(BeforeGc.activations_table.alloc) :
          is_i31(BeforeGc.activations_table.alloc.chunk[i])
    /\ memory = BeforeGc.memory
    /\ \E o \in Objects(Cur) : \E off \in RefSlotOffsets(Cur, o) :
          is_i31(read_u32(Cur, o + off)) /\ ref_count(Cur, o) = 1

\* C18: attach on an attached heap and detach on a detached heap panic before
\* they change anything; attach on a detached heap and detach on an attached
\* heap succeed and flip the attachment; nothing else flips it, so attached
\* and detached strictly alternate.
C18_AttachDetach ==
    [][/\ last'.op = "attach" =>
             IF is_attached(Cur)
             THEN panicked' /= "" /\ UNCHANGED <<heap_vars, host_data_table>>
             ELSE panicked' = "" /\ is_attached(Cur)'
       /\ last'.op = "detach" =>
             IF is_attached(Cur)
             THEN panicked' = "" /\ ~is_attached(Cur)'
             ELSE panicked' /= "" /\ UNCHANGED <<heap_vars, host_data_table>>
       /\ is_attached(Cur)' /= is_attached(Cur) =>
             /\ last'.op = (IF is_attached(Cur) THEN "detach" ELSE "attach")
             /\ last'.ok
             /\ lives' = lives + (IF is_attached(Cur) THEN 0 ELSE 1)]_vars

\* A heap that served one store and was attached for the next is attached
\* once more: the call panicked and the heap is as it was.
C18_Witness ==
    /\ last.op = "attach" /\ panicked = "assertion failed: !self.is_attached()"
    /\ lives = 2 /\ is_attached(Cur)
    /\ free_list /= Some(FreeList_new(MemoryLength))

\* The operations of a heap other than attach and detach.
HeapOps ==
    AllocOps \cup {"clone_gc_ref", "write_gc_ref", "expose_gc_ref_to_wasm",
                   "enter_no_gc_scope", "exit_no_gc_scope", "gc", "collect_increment"}

\* C19: every heap operation called on a detached heap panics.  No
\* operation but attach and detach changes the attachment, so the heap an
\* operation has left detached was detached when it was called.
C19_DetachedOpsPanic ==
    ~is_attached(Cur) /\ last.op \in HeapOps => panicked /= ""

\* C20: after a detach the heap is as DrcHeap::new made it, apart from the
\* trace-info cache: no memory, memory descriptor or free list, no_gc_count
\* 0, over_approx and precise empty, next at the start of the bump chunk and
\* every slot of the chunk zero.
C20_DetachRestoresNew ==
    last.op = "detach" /\ panicked = "" =>
       /\ memory = None /\ vmmemory = None /\ free_list = None
       /\ no_gc_count = 0
       /\ activations_table.over_approximated_stack_roots = {}
       /\ activations_table.precise_stack_roots = {}
       /\ activations_table.alloc.next = 0
       /\ \A i \in 1..capacity(activations_table.alloc) :
             activations_table.alloc.chunk[i] = 0

\* The step is a Sweep increment that ran to its end.
SweepStep ==
    /\ last'.op = "collect_increment" /\ collection /= None
    /\ Unwrap(collection).phase = "Sweep" /\ panicked' = ""

\* The bump chunk is at capacity, and the capacity the growth aims at.
AtCapacity(alloc) == len(alloc) = capacity(alloc)
GrownCapacity(alloc) == IntMax(IntMin(2 * capacity(alloc), MAX_CAPACITY), INITIAL_CAPACITY)
AllZero(alloc) == \A i \in 1..capacity(alloc) : alloc.chunk[i] = 0

\* C21 as stated: a sweep that starts with the bump chunk at capacity ends
\* with the capacity max(min(2 * old, MAX_CAPACITY), INITIAL_CAPACITY), next
\* at the start, end at the end and every slot zero; any other sweep leaves
\* the capacity as it was.
C21_SweepGrowsChunk ==
    [][SweepStep =>
          IF AtCapacity(activations_table.alloc)
          THEN /\ capacity(activations_table'.alloc) = GrownCapacity(activations_table.alloc)
               /\ activations_table'.alloc.next = 0
               /\ activations_table'.alloc.end = capacity(activations_table'.alloc) * SizeOfU32
               /\ AllZero(activations_table'.alloc)
          ELSE capacity(activations_table'.alloc) = capacity(activations_table.alloc)]_vars

\* C21 amended: a sweep that starts with the bump chunk at capacity ends
\* with the grown capacity or, when the allocation of the new chunk failed,
\* with the old chunk, and in both cases with next at the start, end at the
\* end and every slot zero; any other sweep leaves the capacity as it was.
\* No step shrinks the chunk, and its capacity is always 0 or between
\* INITIAL_CAPACITY and MAX_CAPACITY.
C21_SweepGrowsOrKeepsChunk ==
    /\ [][/\ SweepStep =>
                IF AtCapacity(activations_table.alloc)
                THEN /\ \E alloc_ok \in BOOLEAN :
                          activations_table'.alloc =
                             alloc_reset(grow_bump_chunk(
                                [activations_table.alloc EXCEPT
                                    !.chunk = [i \in 1..capacity(activations_table.alloc) |-> 0]],
                                alloc_ok))
                     /\ capacity(activations_table'.alloc)
                           \in {GrownCapacity(activations_table.alloc),
                                capacity(activations_table.alloc)}
                     /\ activations_table'.alloc.next = 0
                     /\ activations_table'.alloc.end
                           = capacity(activations_table'.alloc) * SizeOfU32
                     /\ AllZero(activations_table'.alloc)
                ELSE capacity(activations_table'.alloc) = capacity(activations_table.alloc)
           /\ capacity(activations_table'.alloc) >= capacity(activations_table.alloc)]_vars
    /\ [](\/ capacity(activations_table.alloc) = 0
          \/ /\ capacity(activations_table.alloc) >= INITIAL_CAPACITY
             /\ capacity(activations_table.alloc) <= MAX_CAPACITY)

\* A sweep found a chunk of MAX_CAPACITY slots all filled and left it at
\* MAX_CAPACITY slots, all zero.
C21_Witness ==
    /\ GcComplete /\ Unwrap(collection).increments = 2 /\ panicked = ""
    /\ capacity(BeforeGc.activations_table.alloc) = MAX_CAPACITY
    /\ AtCapacity(BeforeGc.activations_table.alloc)
    /\ capacity(activations_table.alloc) = MAX_CAPACITY
    /\ AllZero(activations_table.alloc)

\* The step is a Trace increment.
TraceStep ==
    /\ last'.op = "collect_increment" /\ collection /= None
    /\ Unwrap(collection).phase = "Trace"

\* C23: the Trace increment raises the count of each distinct heap
\* reference reported as on the mutator's stack by exactly one, however
\* often it is reported, and puts it into precise_stack_roots; roots that
\* are not on the stack and inline integers change no count and are not
\* inserted; the bump chunk, its fingers, the over-approximated set, the
\* free list and the host-data table stay as they are.
C23_TraceCountsEachRootOnce ==
    [][TraceStep =>
          /\ panicked' = ""
          /\ activations_table' =
                [activations_table EXCEPT
                    !.precise_stack_roots = Unwrap(collection').roots]
          /\ UNCHANGED <<free_list, host_data_table>>
          /\ IF ~is_attached(Cur) THEN UNCHANGED memory
             ELSE \A a \in Addrs(MemoryLength) :
                     Unwrap(memory').data[a] =
                        Unwrap(memory).data[a]
                        + (IF a - HEADER_REF_COUNT_OFFSET \in Unwrap(collection').roots
                           THEN 1 ELSE 0)]_vars

\* A trace was given the same heap reference twice as an on-stack root,
\* while the host held another reference: the root was counted once.
C23_Witness ==
    /\ panicked = "" /\ collection /= None /\ Unwrap(collection).phase = "Sweep"
    /\ \E r \in HeapRefs :
          /\ activations_table.precise_stack_roots = {r}
          /\ ref_count(Cur, r) = ref_count(BeforeGc, r) + 1
          /\ \E roots \in RootSeqs :
                /\ Len(roots) = 2 /\ roots[1] = roots[2]
                /\ roots[1] = [gc_ref |-> r, on_wasm_stack |-> TRUE]
                /\ trace(BeforeGc, roots).memory = memory
          /\ \E h \in HostHeld : h /= r

\* The decrements of q and the objects deallocated in a stretch of a log.
DecsIn(log, q, lo, hi) ==
    Cardinality({i \in lo..hi : log[i][1] = "dec" /\ log[i][2] = q})
FreedInRange(log, lo, hi) == {log[i][2] : i \in {j \in lo..hi : log[j][1] = "dealloc"}}

\* The filled slots of the bump chunk that hold q.
SlotsHolding(alloc, q) ==
    Cardinality({i \in 1..IntMin(len(alloc), Len(alloc.chunk)) : alloc.chunk[i] = q})

\* The log of a sweep of x has one swap; before it every object is
\* decremented once for each filled slot that held it, after it once if it
\* was in the over-approximated set, and in both stretches once more for
\* each reference field of an object deallocated in that stretch.
SweepOrderOk(x, log) ==
    \E k \in 1..Len(log) :
       /\ log[k][1] = "swap"
       /\ \A j \in 1..Len(log) : log[j][1] = "swap" => j = k
       /\ \A q \in Objects(x) :
             /\ DecsIn(log, q, 1, k - 1)
                   = SlotsHolding(x.activations_table.alloc, q)
                     + Cardinality(FieldsHolding(x, FreedInRange(log, 1, k - 1), q))
             /\ DecsIn(log, q, k + 1, Len(log))
                   = (IF q \in x.activations_table.over_approximated_stack_roots
                      THEN 1 ELSE 0)
                     + Cardinality(FieldsHolding(x, FreedInRange(log, k + 1, Len(log)), q))

\* C24: within one sweep the decrements for the filled bump-chunk slots
\* come first, one for each slot, then the swap of the two sets, then one
\* decrement for each element of the old over-approximated set; the
\* elements of the traced set are not decremented by the drain (every other
\* decrement belongs to the cascade of an object deallocated on the way).
C24_SweepOrder ==
    [][SweepStep =>
          \E alloc_ok \in BOOLEAN : \E s \in {sweep(Cur, alloc_ok)} :
             /\ s.memory = memory' /\ s.activations_table = activations_table'
             /\ SweepOrderOk(Cur, s.log)]_vars

\* A complete collection found a filled bump slot and a non-empty
\* over-approximated set, and kept a root that had one entry: its count is
\* what it was.
C24_Witness ==
    /\ GcComplete /\ Unwrap(collection).increments = 2
    /\ len(BeforeGc.activations_table.alloc) >= 1
    /\ BeforeGc.activations_table.over_approximated_stack_roots /= {}
    /\ \E r \in activations_table.over_approximated_stack_roots :
          /\ TableEntries(BeforeGc.activations_table, r) = 1
          /\ ref_count(Cur, r) = ref_count(BeforeGc, r)
          /\ r \notin BeforeGc.activations_table.over_approximated_stack_roots

\* C25: after a complete collection the over-approximated set is exactly
\* the set of distinct heap references its trace was given as on-stack
\* roots, and the bump chunk is empty: what the old set or the chunk held
\* and the trace did not find is gone from the table.
C25_OverApproxIsTracedRoots ==
    GcComplete /\ Unwrap(collection).increments = 2 =>
       /\ activations_table.over_approximated_stack_roots = Unwrap(collection).roots
       /\ len(activations_table.alloc) = 0
       /\ activations_table.precise_stack_roots = {}

\* A complete collection kept a root that sat in the bump chunk and dropped
\* an element of the old over-approximated set that was no root.
C25_Witness ==
    /\ GcComplete /\ Unwrap(collection).increments = 2
    /\ \E r \in activations_table.over_approximated_stack_roots :
          /\ SlotsHolding(BeforeGc.activations_table.alloc, r) = 1
          /\ r \notin BeforeGc.activations_table.over_approximated_stack_roots
    /\ \E q \in BeforeGc.activations_table.over_approximated_stack_roots :
          q \notin activations_table.over_approximated_stack_roots

\* C26: every slot of the bump chunk at or beyond next is zero, in every
\* state reached through exposures, collections, detach and attach.
C26_SlotsBeyondNextAreZero ==
    panicked = "" =>
       \A i \in SlotAt(activations_table.alloc.next)..capacity(activations_table.alloc) :
          activations_table.alloc.chunk[i] = 0

\* The slots bump_capacity_remaining stands for.
RemainingSlots(table) == bump_capacity_remaining(table) \div SizeOfU32

\* C27: between operations next and end lie within or one past the chunk,
\* chunk start <= next <= end = chunk start + capacity, on slot boundaries;
\* and bump_capacity_remaining / 4 is the capacity less the number of
\* try_insert successes since the last reset or sweep: an exposure that
\* finds a free slot takes one slot from it, one that finds none leaves it,
\* a sweep and a detach bring it back to the capacity of the chunk they
\* leave (grown, or kept when the growth failed), and nothing else changes
\* it.
C27_BumpFingers ==
    /\ [](panicked = "" =>
            /\ 0 <= activations_table.alloc.next
            /\ activations_table.alloc.next <= activations_table.alloc.end
            /\ activations_table.alloc.end
                  = capacity(activations_table.alloc) * SizeOfU32
            /\ activations_table.alloc.next % SizeOfU32 = 0
            /\ RemainingSlots(activations_table)
                  = capacity(activations_table.alloc) - len(activations_table.alloc))
    /\ [][panicked' = "" =>
            RemainingSlots(activations_table') =
               IF SweepStep \/ last'.op = "detach"
               THEN capacity(activations_table'.alloc)
               ELSE IF last'.op = "expose_gc_ref_to_wasm" /\ RemainingSlots(activations_table) > 0
               THEN RemainingSlots(activations_table) - 1
               ELSE RemainingSlots(activations_table)]_vars

\* In a heap that serves its second store the chunk has grown to
\* MAX_CAPACITY slots, and an exposure has filled one of them.
C27_Witness ==
    /\ panicked = "" /\ last.op = "expose_gc_ref_to_wasm"
    /\ capacity(activations_table.alloc) = MAX_CAPACITY
    /\ RemainingSlots(activations_table) = MAX_CAPACITY - 1
    /\ lives = 2

\* C28: precise_stack_roots is empty unless a collection has traced and
\* not yet swept: it is empty when gc() is called and whenever no collection
\* exists, after the Sweep increment, and after detach.
C28_PreciseOnlyMidCollection ==
    /\ panicked = "" /\ activations_table.precise_stack_roots /= {} =>
          collection /= None /\ Unwrap(collection).phase = "Sweep"
    /\ panicked = "" /\ last.op \in {"gc", "detach"} =>
          activations_table.precise_stack_roots = {}

\* A collection whose trace filled precise_stack_roots has swept: the set
\* is empty again.
C28_Witness ==
    /\ GcComplete /\ Unwrap(collection).increments = 2
    /\ Unwrap(collection).roots /= {}
    /\ activations_table.precise_stack_roots = {}
    /\ lives = 2

\* The objects of a chain of singly-held objects that starts at o: each has
\* a count of 1 and is referred to by the one before it.
RECURSIVE SinglyHeldChain(_, _)
SinglyHeldChain(x, o) ==
    IF ref_count(x, o) /= 1 THEN {}
    ELSE {o} \cup UNION {SinglyHeldChain(x, t) : t \in Targets(x, o)}

\* C29: between operations the worklist is present and empty; a cascade
\* runs with the worklist taken out of the heap (a second cascade started
\* meanwhile would panic on the missing worklist), ends on every object
\* graph the store builds, cycles and shared children included, and puts
\* the empty worklist back; dropping the head of a chain of singly-held
\* objects deallocates the whole chain in that one cascade.  Stated of the
\* cascade every write_gc_ref over a heap reference makes.
C29_CascadeWorklist ==
    /\ [](panicked = "" => dec_ref_stack = Some(<<>>))
    /\ [][last'.op = "write_gc_ref" /\ IsHeapRef(last'.args[2]) =>
            \A before \in {BeforeDec} :
               \A loop \in {DecRefLoop([before EXCEPT !.dec_ref_stack = None],
                                       <<last'.args[2]>>)} :
                  /\ Ok(loop) /\ loop.dec_ref_stack = None
                  /\ put_back_dec_ref_stack(loop) = dec_ref_and_maybe_dealloc(before, last'.args[2])
                  /\ ~Ok(dec_ref_and_maybe_dealloc([before EXCEPT !.dec_ref_stack = None],
                                                 last'.args[2]))
                  /\ SinglyHeldChain(before, last'.args[2]) \subseteq FreedIn(loop.log)
                  /\ \A q \in SinglyHeldChain(before, last'.args[2]) :
                        ~IsAllocated(free_list', memory', q)]_vars

\* The host dropped its only reference to a struct whose field was the only
\* reference to another object: the one cascade deallocated both and left
\* the worklist empty.
C29_Witness ==
    /\ last.op = "write_gc_ref" /\ panicked = "" /\ last.args[1] < 0
    /\ last.args[3] = 0 /\ IsHeapRef(last.args[2])
    /\ header_kind(header(Cur, last.args[2])) = KindStructRef
    /\ ~IsAllocated(free_list, memory, last.args[2])
    /\ \E off \in RefSlotOffsets(Cur, last.args[2]) :
          \E q \in HeapRefs \ {last.args[2]} :
             /\ read_u32(Cur, last.args[2] + off) = q
             /\ ref_count(Cur, q) = 0
             /\ ~IsAllocated(free_list, memory, q)
    /\ dec_ref_stack = Some(<<>>)

\* C30: every exposure of a heap reference moves one count into the
\* activations table: the entries the table holds for it, filled bump slots
\* and membership of the over-approximated set, which are what the next
\* sweep decrements, go up by one, also when the exposure spills a
\* reference the over-approximated set already contains.
C30_ExposureAddsEntry ==
    [][last'.op = "expose_gc_ref_to_wasm" /\ panicked' = "" /\ IsHeapRef(last'.args[1]) =>
          \E r \in {last'.args[1]} :
             /\ TableEntries(activations_table', r) = TableEntries(activations_table, r) + 1
             /\ ref_count(Cur, r)' = ref_count(Cur, r)]_vars

\* The reference-count events of the step being taken: those of the write
\* barrier, of the sweep, or of giving back an uninitialized object.
StepLog ==
    IF last'.op = "write_gc_ref" THEN WriteLog
    ELSE IF last'.op = "dealloc_uninit" THEN dealloc(Cur, uninit).log
    ELSE IF SweepStep
    THEN LET oks == {ok \in BOOLEAN : sweep(Cur, ok).activations_table = activations_table'}
         IN  sweep(Cur, CHOOSE ok \in oks : TRUE).log
    ELSE <<>>

\* The blocks a step returns to the free list are those of the objects its
\* log deallocates; each of them was allocated before the step, is
\* deallocated once, and its count at that moment is in counts.
DeallocsOk(log, counts) ==
    /\ free_list' /= None /\ free_list /= None =>
          \A a \in Unwrap(free_list').free \ Unwrap(free_list).free :
             \E q \in FreedIn(log) :
                a \in BlockCells(q, RoundUp(object_size(Cur, q), FreeListAlign))
    /\ \A i \in 1..Len(log) :
          log[i][1] = "dealloc" =>
             /\ log[i][2] \in Objects(Cur)
             /\ ~IsAllocated(free_list', memory', log[i][2])
             /\ log[i][3] \in counts
             /\ \A j \in 1..Len(log) :
                   log[j][1] = "dealloc" /\ log[j][2] = log[i][2] => j = i

\* C31 as stated: every object returned to the free list was allocated, is
\* returned once, and its ref_count is zero at that moment, in every
\* operation.
C31_DeallocOnceAtZero ==
    [][panicked' = "" => \A log \in {StepLog} : DeallocsOk(log, {0})]_vars

\* C31: every object returned to the free list was allocated and is returned
\* once; its ref_count is zero at that moment, except for an object that
\* dealloc_uninit_struct / dealloc_uninit_array gives back before it was
\* initialized, whose count is still the 1 that alloc_raw wrote.
C31_DeallocOnce ==
    [][panicked' = "" =>
          \A log \in {StepLog} :
             IF last'.op = "dealloc_uninit"
             THEN DeallocsOk(log, {1}) /\ FreedIn(log) = {uninit}
             ELSE DeallocsOk(log, {0})]_vars

\* A sweep freed an array whose two elements held the same child, and the
\* child, which only the array held, was freed with it.
C31_Witness ==
    /\ GcComplete /\ Unwrap(collection).increments = 2
    /\ \E parent \in Objects(BeforeGc) : \E child \in Objects(BeforeGc) \ {parent} :
          /\ header_kind(header(BeforeGc, parent)) = KindArrayRef
          /\ \A off \in RefSlotOffsets(BeforeGc, parent) :
                read_u32(BeforeGc, parent + off) = child
          /\ Cardinality(RefSlotOffsets(BeforeGc, parent)) >= 2
          /\ ref_count(BeforeGc, child) = Cardinality(RefSlotOffsets(BeforeGc, parent))
          /\ ~IsAllocated(free_list, memory, parent)
          /\ ~IsAllocated(free_list, memory, child)
          /\ ref_count(Cur, child) = 0

\* The trace of a collection has been given the roots of the mutator's
\* stack: what the stack held at the safepoint gc() was called at.
Traced ==
    /\ panicked = "" /\ collection /= None
    /\ Unwrap(collection).phase \in {"Sweep", "Done"}
    /\ Unwrap(collection).increments >= 1

TypesOf(objects) ==
    {Unwrap(header_ty(header(Cur, q))) : q \in {o \in objects : IsSome(header_ty(header(Cur, o)))}}

\* C33: the trace-info cache only grows and its entries never change; an
\* allocation of a struct or an array leaves an entry for its type whether
\* it returns a reference or Err, and detach keeps the entries; each entry
\* is the one derived from the registry's layout, ensuring a type that is
\* present changes nothing, and tracing any allocated object finds its
\* trace info.
C33_TraceInfos ==
    /\ [](\A t \in DOMAIN trace_infos :
             /\ trace_infos[t] = TraceInfoOf(TypeRegistry[t])
             /\ ensure_trace_info(Cur, t) = Cur)
    /\ [](panicked = "" =>
             /\ TypesOf(Objects(Cur)) \subseteq DOMAIN trace_infos
             /\ \A q \in Objects(Cur) : trace_gc_ref(Cur, q, <<>>) /= None)
    /\ [](panicked = "" =>
             /\ \A ty \in StructTypes :
                   ty \in DOMAIN alloc_uninit_struct(Cur, ty, StructLayout(ty)).x.trace_infos
             /\ \A ty \in ArrayTypes, length \in 0..MaxArrayLen :
                   ty \in DOMAIN alloc_uninit_array(Cur, ty, length,
                                                    ArrayLayout(ty, length)).x.trace_infos)
    /\ [][/\ \A t \in DOMAIN trace_infos :
               t \in DOMAIN trace_infos' /\ trace_infos'[t] = trace_infos[t]
          /\ last'.op \in {"alloc_uninit_struct", "alloc_uninit_array"} =>
                \E ty \in Types :
                   /\ trace_infos' = ensure_trace_info(Cur, ty).trace_infos
                   /\ last'.ok => \E v \in {last'.val} : ty \in TypesOf({v})'
          /\ last'.op \notin {"alloc_uninit_struct", "alloc_uninit_array"} =>
                trace_infos' = trace_infos]_vars

\* After a detach and a second attach, an allocation returned Err for want
\* of room, and the cache holds an entry for a type no allocated object has.
C33_Witness ==
    /\ panicked = "" /\ lives = 2 /\ is_attached(Cur)
    /\ last.op = "alloc_uninit_array" /\ ~last.ok
    /\ Objects(Cur) /= {}
    /\ DOMAIN trace_infos \ TypesOf(Objects(Cur)) /= {}

\* Memory, memory descriptor and free list are all present or all absent.
AllOrNone == IsSome(memory) = IsSome(free_list) /\ IsSome(memory) = IsSome(vmmemory)

\* C34 as stated: in every state reached through attach, detach,
\* take_memory and replace_memory the memory, the memory descriptor and the
\* free list are all present or all absent.
C34_AllOrNone == panicked = "" => AllOrNone

\* C34: memory, memory descriptor and free list are all present or all
\* absent, except between take_memory and replace_memory, when the free
\* list is present without the other two and is_attached's debug assertion
\* does not hold; take_memory changes nothing else, and replace_memory
\* installs the memory it is given and its descriptor, adds exactly delta
\* to the free list's capacity as free room, and leaves the objects, their
\* reference counts and the activations table as they were.
C34_TakeAndReplaceMemory ==
    /\ [](panicked = "" /\ ~Taken => AllOrNone /\ is_attached_asserts(Cur))
    /\ [](Taken => /\ ~IsSome(memory) /\ ~IsSome(vmmemory) /\ IsSome(free_list)
                    /\ debug_assertions => ~is_attached_asserts(Cur))
    /\ [][last'.op = "take_memory" /\ panicked' = "" =>
             /\ last'.val = memory /\ IsSome(memory)
             /\ UNCHANGED <<trace_infos, no_gc_count, activations_table, free_list,
                            dec_ref_stack, host_data_table>>]_vars
    /\ [][last'.op = "replace_memory" /\ panicked' = "" =>
             \E old \in {Unwrap(last.val)}, delta \in {last'.args[1]} :
                /\ AllOrNone'
                /\ Unwrap(memory').len = old.len + delta
                /\ Unwrap(vmmemory').current_length = old.len + delta
                /\ \A a \in Addrs(old.len) : Unwrap(memory').data[a] = old.data[a]
                /\ Unwrap(free_list').capacity = Unwrap(free_list).capacity + delta
                /\ Unwrap(free_list').free =
                      Unwrap(free_list).free
                      \cup Cells(Unwrap(free_list).capacity, Unwrap(free_list).capacity + delta)
                /\ Objects(Cur)' = Objects([Cur EXCEPT !.memory = Some(old)])
                /\ \A q \in Objects(Cur)' : ref_count(Cur, q)' = old.data[q + HEADER_REF_COUNT_OFFSET]
                /\ UNCHANGED <<trace_infos, no_gc_count, activations_table, dec_ref_stack,
                               host_data_table>>]_vars

\* A memory that held an object with an entry in the activations table was
\* taken, grown and put back.
C34_Witness ==
    /\ panicked = "" /\ last.op = "replace_memory" /\ last.args[1] > 0
    /\ AllOrNone /\ is_attached(Cur)
    /\ Unwrap(free_list).capacity = MaxGrownLength
    /\ \E q \in Objects(Cur) : q \in elements(activations_table) /\ ref_count(Cur, q) >= 1

====
